---- MODULE Spec2Model ----
(***************************************************************************)
(* The enrichment engine of doctrail: one enrichment run over a small row  *)
(* stream.  Modelled from src/src/llm_operations.py (process_batch,        *)
(* process_and_save, process_row_structured, process_row,                  *)
(* process_translation), src/src/main.py (_async_cli, the model loop),     *)
(* src/src/db_operations.py (store_raw_enrichment_response,                *)
(* update_output_table, update_database, ensure_output_table) and          *)
(* src/src/llm/processors/enrichment.py (EnrichmentProcessor).             *)
(*                                                                         *)
(* A per-row task is a coroutine; its suspension points (semaphore         *)
(* acquisition, provider I/O, asyncio.to_thread database calls) are the    *)
(* boundaries of the actions below.  Code between two suspension points    *)
(* runs atomically on the event loop and is one action.                    *)
(***************************************************************************)
EXTENDS Integers, FiniteSets, Sequences, TLC

(* ---- bounds of the model ---------------------------------------------- *)

\* rows in the row stream handed to one run
NumRows ==
    3

\* capacity of the API semaphore in the model; the program's value is
\* DEFAULT_API_SEMAPHORE_LIMIT = 30 (constants.py:6), scaled down so that
\* NumRows tasks can saturate it
ApiLimit ==
    2

\* chunks (groups of 3 lines) of one document in process_translation
NumChunks ==
    3

\* database statements that may fail (lock timeout) during one run
MaxDbFaults ==
    1

\* rows 1..MaxTroubled are the rows whose provider calls and database
\* statements may fail; for the other rows every call succeeds
MaxTroubled ==
    1

\* chunks 1..MaxFailingChunks of a document are the chunks whose requests
\* may fail in process_translation
MaxFailingChunks ==
    1

\* SIGINT arrives before more than MaxCallsBeforeSigint provider calls were
\* issued in the run
MaxCallsBeforeSigint ==
    3

\* rows the planned statement of a task with several models returns
MaxMultiModelRows ==
    2

\* longest prompt text, in characters, given to the prompt registry
MaxPromptLen ==
    2

\* longest system prompt, in characters, given to the prompt registry
MaxSystemLen ==
    1

\* calls of get_or_create_prompt_id on one database
MaxLookups ==
    3

\* context limit of the model in tokens; the program's table has 8192 to
\* 1000000 (llm_operations.py:45-58), scaled down with the texts
ContextLimit ==
    5

\* safety_margin in tokens; the program's default is 2000
\* (llm_operations.py:65), scaled down with the context limit
SafetyMargin ==
    2

\* longest prompt template, in characters outside the placeholder
MaxBaseLen ==
    8

\* longest value of the input column, in characters
MaxValueLen ==
    16

\* longest reply for a field with a declared language, in characters
MaxTextLen ==
    2

\* longest list returned for an enum_list field
MaxListLen ==
    4

\* largest min_items and max_items of an enum_list field
MaxItems ==
    3

\* rows of the table a selection is planned for
NumPlanRows ==
    2

\* largest --limit given to the planner
MaxLimit ==
    1

\* rows between two WAL checkpoints; the program has 1000
\* (llm_operations.py:647), scaled down with the batches
CheckpointEvery ==
    3

\* batches of a run, and the most successful rows of a batch
MaxBatches ==
    3

MaxBatchRows ==
    7

\* the models of one enrichment, the rows a model pass has left to
\* process, the estimated cost of one row, and --cost-threshold
MaxModels ==
    2

MaxCostRows ==
    2

MaxPrice ==
    2

MaxThreshold ==
    2

\* the fields of a structured result
MaxFields ==
    2

(* ---- program constants ------------------------------------------------ *)

\* constants.py:7
DEFAULT_DB_SEMAPHORE_LIMIT ==
    2

\* llm_operations.py:717  (total of max_retries + 1 attempts)
max_retries ==
    2

\* constants.py:81; the default of the retries parameter of
\* get_db_connection (db_operations.py:15)
MAX_RETRY_ATTEMPTS ==
    3

(* ---- values ----------------------------------------------------------- *)

RowIds ==
    1..NumRows

Sha1s ==
    {"A", "B", "C", "D"}

ModelNames ==
    {"m1", "m2", "mx"}

\* the models of the pricing table (utils/cost_estimation.py:11-76): "mx"
\* stands for a model name the table does not list
MODEL_PRICING ==
    {"m1", "m2"}

\* utils/cost_estimation.py:260-270
validate_model(m) ==
    m \in MODEL_PRICING

\* indices of the model passes of a run: a task lists one or two models
Passes ==
    1..2

\* the content hash of the i-th row of the stream when all rows are distinct
DistinctSha1(i) ==
    IF i = 1 THEN "A" ELSE IF i = 2 THEN "B" ELSE IF i = 3 THEN "C" ELSE "D"

\* the enrichment name of this run, and another enrichment sharing the store
ThisName ==
    "e"

OtherName ==
    "other"

\* enrichment_id values.  The program mints str(uuid.uuid4()) once per call
\* of process_row_structured / process_row / process_translation /
\* _process_single_row; the only property of a uuid4 used is freshness, so
\* the id is the triple (model pass, row, path) of the minting call.
Eid(p, r, path) ==
    <<p, r, path>>

\* an id of a record written before this run
PreEid ==
    <<0, 0, "pre">>

\* SQL NULL in the output column
NoVal ==
    <<0, 0, "null">>

VARIABLES
    cfg,        \* the run's configuration and flags (fixed by Init)
    audit,      \* enrichment_responses: set of audit records
    derived,    \* the derived output table: set of rows
    srcCol,     \* the output column of the source table, per sha1
    projLog,    \* history: projected writes performed in this run
    phase,      \* position of _async_cli
    passIdx,    \* index into cfg.models of the current model pass
    pc,         \* position of each row's task
    path,       \* which row processor the task is in: "s", "l", "p"
    attempt,    \* loop variable of the language-validation retry loop
    res,        \* the row result: "none", "ok" (updated set), "err"
    ended,      \* history: how process_row_structured ended for the row
    exists,     \* update_output_table's local `exists`
    chunk,      \* process_translation: state of each chunk coroutine
    apiHeld,    \* permits taken from `semaphore`
    dbHeld,     \* permits taken from `db_semaphore`
    faults,     \* database faults injected so far
    calls,      \* history: provider calls issued, per model pass and row
    nCalls,     \* history: provider calls issued in this run
    results,    \* the row stream: rows returned by the planned SELECT
    snapCol,    \* the output column as fetched with the row stream
    hasColumn,  \* the source table has the output column
    auditSchema,\* the schema of enrichment_responses
    prompts,    \* the prompts table: set of prompt records
    minted,     \* uuid4 values minted for prompt records so far
    inputs,     \* the two (enrichment name, prompt, system prompt) inputs
    client,     \* position of each doctrail process in the registry call
    returned,   \* history: the prompt_id each registry call returned
    nLookups,   \* history: registry calls started
    job,        \* prompt preparation: the row, the template and the flags
    task,       \* prompt preparation: the message built and what followed
    field,      \* language validation: one field and the task filling it
    elist,      \* enum_list validation: one field and the task filling it
    planner,    \* query planning: the selection, the flags and the plans
    conn,       \* one use of get_db_connection by a caller
    wal,        \* WAL checkpoints: the batches of a run and the checkpoints
    cost,       \* cost check: the passes of a run and the confirmations
    proj        \* the projected write of one row result

\* the variables of the enrichment run
engine ==
    <<cfg, audit, derived, srcCol, projLog, phase, passIdx, pc, path,
      attempt, res, exists, chunk, apiHeld, dbHeld, faults, calls,
      nCalls, ended, results, snapCol, hasColumn, auditSchema>>

\* the variables of the callers of the prompt registry
callers ==
    <<inputs, client, returned, nLookups>>

\* the variables of the prompt registry and of the enrichment run
database ==
    <<engine, prompts, minted, callers>>

\* the variables of the preparation of one row's prompt
prep ==
    <<job, task>>

\* the variables outside the enrichment run and the prompt registry
\* the variables of the connection, checkpoint and cost-check steps
misc ==
    <<conn, wal, cost, proj>>

pure ==
    <<prep, field, elist, planner, misc>>

vars ==
    <<database, pure>>

(* ---- the prompt registry ---------------------------------------------- *)

\* Texts are sequences of characters; "|" is the character that
\* get_or_create_prompt_id puts between the parts of prompt_content.
Chars ==
    {"a", "|"}

Strings(n) ==
    UNION {[1..k -> Chars] : k \in 0..n}

\* prompt texts of an enrichment: not empty
PromptTexts ==
    Strings(MaxPromptLen) \ {<<>>}

\* Python's None for an enrichment without system prompt
None ==
    <<"None">>

\* system_prompt: Optional[str]
SystemPrompts ==
    {None} \cup Strings(MaxSystemLen)

\* db_operations.py:852, `system_prompt or ''`
OrEmpty(s) ==
    IF s = None THEN <<>> ELSE s

\* db_operations.py:852, f"{enrichment_name}|{prompt_text}|{system_prompt or ''}"
prompt_content(e, p, s) ==
    <<e>> \o <<"|">> \o p \o <<"|">> \o OrEmpty(s)

\* db_operations.py:853, hashlib.sha256(...).hexdigest(): distinct contents
\* are taken to have distinct digests, equal contents have equal digests
prompt_hash(e, p, s) ==
    <<"sha256", prompt_content(e, p, s)>>

\* the arguments of get_or_create_prompt_id that enter the hash
PromptInputs ==
    [e : {ThisName, OtherName}, p : PromptTexts, s : SystemPrompts]

\* the prompt of the enrichment run modelled by the task actions
ConfigInput ==
    [e |-> ThisName, p |-> <<"a">>, s |-> None]

\* two inputs are compared
InputIds ==
    {1, 2}

\* doctrail processes working on the same database file
Clients ==
    {1, 2}

\* db_operations.py:861-864, SELECT prompt_id FROM prompts WHERE
\* enrichment_name = ? AND prompt_hash = ?
SelectPrompt(tbl, x) ==
    {a \in tbl : /\ a.enrichment_name = x.e
                 /\ a.prompt_hash = prompt_hash(x.e, x.p, x.s)}

\* the record the INSERT of db_operations.py:874-879 writes; the uuid4 of
\* line 871 is fresh, the number of the minting stands for it
PromptRec(x, id) ==
    [prompt_id |-> id, enrichment_name |-> x.e, prompt_text |-> x.p,
     system_prompt |-> x.s, prompt_hash |-> prompt_hash(x.e, x.p, x.s)]

UniquePromptViolated_Never(tbl, x) ==
    FALSE

\* db_operations.py:818, UNIQUE(enrichment_name, prompt_hash): the INSERT
\* raises sqlite3.IntegrityError
UniquePromptViolated(tbl, x) ==
    \E a \in tbl : /\ a.enrichment_name = x.e
                   /\ a.prompt_hash = prompt_hash(x.e, x.p, x.s)

\* get_or_create_prompt_id called by a process that has the database to
\* itself: the table after the call
Registered(tbl, x, id) ==
    IF SelectPrompt(tbl, x) # {} THEN tbl ELSE tbl \cup {PromptRec(x, id)}

IdleClient ==
    [pc |-> "idle", i |-> 1, m |-> "m1"]

\* db_operations.py:841-868: a process calls get_or_create_prompt_id for
\* input i under model m and runs the SELECT; a record found is returned
Lookup(c, i, m) ==
    /\ client[c].pc = "idle"
    /\ nLookups < MaxLookups
    /\ nLookups' = nLookups + 1
    /\ IF SelectPrompt(prompts, inputs[i]) # {}
       THEN /\ returned' = returned \cup
                  {[i |-> i, m |-> m, prompt_id |-> a.prompt_id] :
                       a \in SelectPrompt(prompts, inputs[i])}
            /\ UNCHANGED client
       ELSE /\ client' = [client EXCEPT ![c] = [pc |-> "insert", i |-> i,
                                                m |-> m]]
            /\ UNCHANGED returned
    /\ UNCHANGED <<engine, pure, prompts, minted, inputs>>

\* db_operations.py:870-884: no record was found; mint the id, INSERT and
\* commit.  The UNIQUE constraint makes the INSERT of a process that lost
\* the race raise, and the call returns nothing.
InsertPrompt(c) ==
    /\ client[c].pc = "insert"
    /\ minted' = minted + 1
    /\ client' = [client EXCEPT ![c] = IdleClient]
    /\ IF UniquePromptViolated(prompts, inputs[client[c].i])
       THEN UNCHANGED <<prompts, returned>>
       ELSE /\ prompts' = prompts \cup
                             {PromptRec(inputs[client[c].i], minted + 1)}
            /\ returned' = returned \cup
                  {[i |-> client[c].i, m |-> client[c].m,
                    prompt_id |-> minted + 1]}
    /\ UNCHANGED <<engine, pure, inputs, nLookups>>

(* ---- the preparation of a row's prompt -------------------------------- *)

\* estimate_tokens (llm_operations.py:61-63, token_utils.py:23-25) of a
\* text of n characters
estimate_tokens(n) ==
    n \div 4

\* context_limit - safety_margin (llm_operations.py:70-77,
\* token_utils.py:46-52)
max_allowed_tokens ==
    ContextLimit - SafetyMargin

\* the input column is named "c": f"{col}: {value}" (llm_operations.py:
\* 686-690) starts with "c: ", whose third character is a space
LabelLen ==
    3

\* "... [TRUNCATED]" (token_utils.py:74)
MarkerLen ==
    15

\* One row and one task.  Texts are given by their length; of the value of
\* the input column the position of its one space is kept (0: no space).
\*   engine    "batch": process_row_structured; "processor":
\*             EnrichmentProcessor._process_single_row
\*   truncate  the --truncate flag
\*   base      characters of the prompt template outside the placeholder
\*   embeds    the template contains the placeholder {c}
\*   value     characters of the row's input column
\*   space     position of the space in the value
Jobs ==
    {j \in [engine : {"batch", "processor"}, truncate : BOOLEAN,
            base : 0..MaxBaseLen, embeds : BOOLEAN,
            value : 0..MaxValueLen, space : 0..MaxValueLen] :
        j.space <= j.value}

\* the prompt after the substitution of the placeholder
\* (llm_operations.py:667-681, enrichment.py:141-143)
TemplatedLen(j) ==
    j.base + (IF j.embeds THEN j.value ELSE 0)

\* input_text: "c: <value>" in process_row_structured (llm_operations.py:
\* 686-690), the value itself in _process_single_row (enrichment.py:147)
InputLen(j) ==
    IF j.engine = "batch" THEN LabelLen + j.value ELSE j.value

\* positions of the spaces of input_text in process_row_structured
InputSpaces(j) ==
    {LabelLen} \cup (IF j.space > 0 THEN {LabelLen + j.space} ELSE {})

\* str.rfind(' ') on the first n characters of input_text, as a Python
\* index: -1 when there is no space
RFindSpace(j, n) ==
    LET ps == {q \in InputSpaces(j) : q <= n}
    IN  IF ps = {} THEN 0 - 1
        ELSE (CHOOSE q \in ps : \A o \in ps : o <= q) - 1

\* truncate_input_for_model of llm_operations.py:65-100: the length of the
\* input text it returns
TruncatedInputLen(j) ==
    LET prompt_tokens == estimate_tokens(TemplatedLen(j))
        input_tokens == estimate_tokens(InputLen(j))
        max_input_tokens == max_allowed_tokens - prompt_tokens
        max_input_chars == max_input_tokens * 4
        cut == IF InputLen(j) < max_input_chars THEN InputLen(j)
               ELSE max_input_chars
        last_space == RFindSpace(j, cut)
    IN  IF prompt_tokens + input_tokens <= max_allowed_tokens
        THEN InputLen(j)
        ELSE IF max_input_tokens <= 0 THEN 0
        ELSE IF cut < InputLen(j) /\ 5 * last_space > 4 * max_input_chars
             THEN last_space
             ELSE cut

\* was_truncated of llm_operations.py:65-100
WasTruncated(j) ==
    estimate_tokens(TemplatedLen(j)) + estimate_tokens(InputLen(j))
        > max_allowed_tokens

\* the message process_row_structured sends and records as full_prompt
\* (llm_operations.py:693-713): templated_prompt + "\n\n" + final_input_text.
\*   prompt, input  characters of the two parts
\*   marker         the text contains "[TRUNCATED]"
\*   cut            characters of the row's input were left out
BatchMessage(j) ==
    LET final == IF j.truncate THEN TruncatedInputLen(j) ELSE InputLen(j)
    IN  [prompt |-> TemplatedLen(j), input |-> final, marker |-> FALSE,
         cut |-> final < InputLen(j)]

\* truncate_input_for_model of token_utils.py:28-80 as _process_single_row
\* uses it (enrichment.py:146-153): full_prompt.replace(input_text, ...)
\* finds the value only when the template embeds it
ProcessorMessage(j) ==
    LET full == TemplatedLen(j)
        found == j.embeds /\ j.value > 0
        base_tokens == estimate_tokens(IF found THEN j.base ELSE full)
        available_for_input == max_allowed_tokens - base_tokens
        max_input_chars == available_for_input * 4
        whole == [prompt |-> full, input |-> 0, marker |-> FALSE,
                  cut |-> FALSE]
    IN  IF ~j.truncate THEN whole
        ELSE IF estimate_tokens(full) <= max_allowed_tokens THEN whole
        ELSE IF available_for_input <= 0 THEN whole
        ELSE IF j.value > max_input_chars /\ found
             THEN [prompt |-> j.base + max_input_chars + MarkerLen,
                   input |-> 0, marker |-> TRUE, cut |-> TRUE]
             ELSE whole

\* the estimate of the message, prompt plus input, as the code adds it up
EstimatedTokens(m) ==
    estimate_tokens(m.prompt) + estimate_tokens(m.input)

NoMessage ==
    [prompt |-> 0, input |-> 0, marker |-> FALSE, cut |-> FALSE]

IdleTask ==
    [pc |-> "start", msg |-> NoMessage, calls |-> 0, error |-> "none",
     audit |-> <<>>]

IdleJob ==
    [engine |-> "batch", truncate |-> FALSE, base |-> 0, embeds |-> FALSE,
     value |-> 0, space |-> 0]

\* llm_operations.py:658-713, enrichment.py:132-156: the prompt is built
\* and, when the flag is set, truncated; nothing else is checked
BuildMessage ==
    /\ task.pc = "start"
    /\ task' = [task EXCEPT !.pc = "ready",
                            !.msg = IF job.engine = "batch"
                                    THEN BatchMessage(job)
                                    ELSE ProcessorMessage(job)]
    /\ UNCHANGED <<database, job, field, elist, planner, misc>>

\* llm_operations.py:721, enrichment.py:159-171: the provider call
IssueCall ==
    /\ task.pc = "ready"
    /\ task' = [task EXCEPT !.pc = "call", !.calls = @ + 1]
    /\ UNCHANGED <<database, job, field, elist, planner, misc>>

\* the provider answers or refuses the request; the error, if any, is the
\* provider's (llm_operations.py:775-788, enrichment.py:208-221)
CallReturns(o) ==
    /\ task.pc = "call"
    /\ task' = [task EXCEPT !.pc = "store",
                            !.error = IF o = "ok" THEN "none"
                                      ELSE "ProviderError"]
    /\ UNCHANGED <<database, job, field, elist, planner, misc>>

\* process_and_save appends the audit row with full_prompt
\* (llm_operations.py:413-423); _store_results does so for a result
\* (enrichment.py:179-192) and is not reached after an error
StoreAudit ==
    /\ task.pc = "store"
    /\ task' = [task EXCEPT
                  !.pc = "done",
                  !.audit = IF job.engine = "processor"
                               /\ task.error # "none"
                            THEN @
                            ELSE Append(@, [error |-> task.error,
                                            full_prompt |-> task.msg])]
    /\ UNCHANGED <<database, job, field, elist, planner, misc>>

(* ---- language validation of a field ----------------------------------- *)

\* Characters are code points.  The alphabet has one representative of
\* each class the code's ranges treat differently:
\*   97      "a"       Latin letter
\*   8212    U+2014    em dash, general punctuation
\*   12402   U+3072    hiragana
\*   13312   U+3400    CJK Extension A ideograph
\*   20013   U+4E2D    CJK Unified ideograph
\*   63744   U+F900    CJK Compatibility ideograph
\*   131072  U+20000   CJK Extension B ideograph
Alphabet ==
    {97, 8212, 12402, 13312, 20013, 63744, 131072}

\* the replies of the provider for the field
FieldTexts ==
    UNION {[1..n -> Alphabet] : n \in 0..MaxTextLen}

\* the CJK ideograph blocks of Unicode the code names in its comments
\* (schema_managers.py:25-41)
IsIdeograph(c) ==
    \/ 19968 <= c /\ c <= 40959       \* U+4E00..U+9FFF
    \/ 13312 <= c /\ c <= 19903       \* U+3400..U+4DBF
    \/ 131072 <= c /\ c <= 173791     \* U+20000..U+2A6DF
    \/ 173824 <= c /\ c <= 177983     \* U+2A700..U+2B73F
    \/ 177984 <= c /\ c <= 178207     \* U+2B740..U+2B81F
    \/ 178208 <= c /\ c <= 183983     \* U+2B820..U+2CEAF
    \/ 63744 <= c /\ c <= 64255       \* U+F900..U+FAFF
    \/ 194560 <= c /\ c <= 195103     \* U+2F800..U+2FA1F

\* lo <= char <= hi of Python strings, char being one character and lo, hi
\* string literals of one or two characters: the comparison is
\* lexicographic, so a one-character string is below every longer string
\* it is a prefix of
InLiteralRange(lo, c, hi) ==
    /\ \/ lo[1] < c
       \/ lo[1] = c /\ Len(lo) = 1
    /\ \/ c < hi[1]
       \/ c = hi[1]

\* The literals of contains_hanzi as Python reads them: an escape \uXXXX
\* takes four hexadecimal digits, so the literal written \u20000 is U+2000
\* followed by "0" (48) and \u2a6df is U+2A6D followed by "f" (102).
contains_hanzi(text) ==
    \E i \in 1..Len(text) :
        \/ InLiteralRange(<<19968>>, text[i], <<40959>>)
        \/ InLiteralRange(<<13312>>, text[i], <<19903>>)
        \/ InLiteralRange(<<8192, 48>>, text[i], <<10861, 102>>)
        \/ InLiteralRange(<<10864, 48>>, text[i], <<11123, 102>>)
        \/ InLiteralRange(<<11124, 48>>, text[i], <<11137, 102>>)
        \/ InLiteralRange(<<11138, 48>>, text[i], <<11498, 102>>)
        \/ InLiteralRange(<<63744>>, text[i], <<64255>>)
        \/ InLiteralRange(<<12152, 48>>, text[i], <<12193, 102>>)

\* schema_managers.py:46-69
validate_language(text, lang) ==
    IF text = <<>> THEN TRUE
    ELSE IF lang = "zh" THEN contains_hanzi(text)
    ELSE IF lang = "en" THEN ~contains_hanzi(text)
    ELSE TRUE

\* One field declared with a language, and the task that fills it.
\*   lang     the declared language
\*   pc       "call", "validate", "store", "done", "failed"
\*   attempt  index of the attempt (llm_operations.py:719)
\*   reply    the provider's value for the field
\*   stored   the value written for the row
IdleField ==
    [lang |-> "en", pc |-> "call", attempt |-> 0, reply |-> <<>>,
     stored |-> None]

\* call_llm_structured returns a value for the field
\* (llm_operations.py:721)
FieldReply(t) ==
    /\ field.pc = "call"
    /\ field' = [field EXCEPT !.pc = "validate", !.reply = t]
    /\ UNCHANGED <<database, prep, elist, planner, misc>>

\* validate_languages (pydantic_schema.py:290-310) and the retry loop
\* around it (llm_operations.py:719-766)
FieldValidate ==
    /\ field.pc = "validate"
    /\ field' =
         IF validate_language(field.reply, field.lang)
         THEN [field EXCEPT !.pc = "store"]
         ELSE IF field.attempt < max_retries
         THEN [field EXCEPT !.pc = "call", !.attempt = @ + 1]
         ELSE [field EXCEPT !.pc = "failed"]
    /\ UNCHANGED <<database, prep, elist, planner, misc>>

\* the validated value is written for the row (llm_operations.py:732-748,
\* 425-470)
FieldStore ==
    /\ field.pc = "store"
    /\ field' = [field EXCEPT !.pc = "done", !.stored = field.reply]
    /\ UNCHANGED <<database, prep, elist, planner, misc>>

(* ---- validation of an enum_list field --------------------------------- *)

\* the choices the field declares, and a value outside them
Choices ==
    {"a", "b"}

Items ==
    Choices \cup {"x"}

\* the lists the provider may return for the field
ListReplies ==
    UNION {[1..n -> Items] : n \in 0..MaxListLen}

\* One enum_list field and the task that fills it.
\*   engine     "structured": the Pydantic model of yaml_to_pydantic_type,
\*              "legacy": EnumListSchemaManager.validate_response
\*   min_items  0 when not declared
\*   max_items  0 when not declared
\*   pc         "call", "validate", "store", "done", "rejected"
\*   reply      the list the provider returned
\*   stored     the list written for the row
ListFields ==
    {f \in [engine : {"structured", "legacy"}, min_items : 0..MaxItems,
            max_items : 0..MaxItems, pc : {"call"}, reply : {<<>>},
            stored : {None}] :
        f.max_items = 0 \/ f.min_items <= f.max_items}

\* the loop of schema_managers.py:217-225: the first occurrence of each
\* item, in order
RECURSIVE deduplicated_items(_)
deduplicated_items(xs) ==
    IF xs = <<>> THEN <<>>
    ELSE LET front == deduplicated_items(SubSeq(xs, 1, Len(xs) - 1))
             last == xs[Len(xs)]
         IN  IF \E i \in 1..Len(front) : front[i] = last
             THEN front
             ELSE Append(front, last)

\* the outcome of a validation: the list to store, or a rejection
Rejected ==
    <<"Rejected">>

\* The field of the Pydantic model is List[enum_class] with min_length and
\* max_length (pydantic_schema.py:70-91): a member outside the enum or a
\* length outside the bounds fails the validation of the reply as
\* returned; no step after it removes duplicates (llm_operations.py:
\* 721-733).
PydanticEnumList(f, xs) ==
    IF \E i \in 1..Len(xs) : xs[i] \notin Choices THEN Rejected
    ELSE IF Len(xs) < f.min_items THEN Rejected
    ELSE IF f.max_items # 0 /\ Len(xs) > f.max_items THEN Rejected
    ELSE xs

\* EnumListSchemaManager.validate_response (schema_managers.py:165-238)
\* on a reply that parsed to the list xs, case_sensitive and unique_items
\* at their defaults
validate_response(f, xs) ==
    LET validated_items == deduplicated_items(xs)
    IN  IF \E i \in 1..Len(xs) : xs[i] \notin Choices THEN Rejected
        ELSE IF f.min_items # 0 /\ Len(validated_items) < f.min_items
        THEN Rejected
        ELSE IF f.max_items # 0 /\ Len(validated_items) > f.max_items
        THEN Rejected
        ELSE validated_items

IdleList ==
    [engine |-> "structured", min_items |-> 0, max_items |-> 0,
     pc |-> "call", reply |-> <<>>, stored |-> None]

\* the provider returns a list (llm_operations.py:721, 862)
ListReply(xs) ==
    /\ elist.pc = "call"
    /\ elist' = [elist EXCEPT !.pc = "validate", !.reply = xs]
    /\ UNCHANGED <<database, prep, field, planner, misc>>

\* the reply is validated against the field (llm_operations.py:721-733
\* for the Pydantic model, 869 for the schema manager); a rejected reply
\* ends the row with an error
ListValidate ==
    /\ elist.pc = "validate"
    /\ LET v == IF elist.engine = "structured"
                THEN PydanticEnumList(elist, elist.reply)
                ELSE validate_response(elist, elist.reply)
       IN  elist' = IF v = Rejected
                    THEN [elist EXCEPT !.pc = "rejected"]
                    ELSE [elist EXCEPT !.pc = "store", !.stored = v]
    /\ UNCHANGED <<database, prep, field, planner, misc>>

\* the validated list is written for the row (llm_operations.py:425-470)
ListStore ==
    /\ elist.pc = "store"
    /\ elist' = [elist EXCEPT !.pc = "done"]
    /\ UNCHANGED <<database, prep, field, planner, misc>>

(* ---- the query planner ------------------------------------------------ *)

\* A statement is the sequence of its words.  "colnull" is the text
\* "col IS NULL" of the output column col, "x" a condition on another
\* column, "rowid," the text "rowid," of a select list, "ORDERBY" the
\* text "ORDER BY", "k" a column whose values decrease with the rowid.
SelectHeads ==
    {<<"SELECT", "*", "FROM", "t">>,
     <<"SELECT", "sha1", "FROM", "t">>,
     <<"SELECT", "rowid,", "*", "FROM", "t">>}

Conds ==
    {"x", "colnull"}

WhereClauses ==
    {<<>>}
        \cup {<<"WHERE", c>> : c \in Conds}
        \cup {<<"WHERE", c, o, d>> : c \in Conds, o \in {"AND", "OR"},
                                     d \in Conds}

\* the decimal text of a row count
NumText(n) ==
    <<"1", "2", "3", "4">>[n]

NumTexts ==
    {NumText(n) : n \in 1..4}

\* the selections a configuration may hold (sql_queries, main.py:352-366)
Selections ==
    {h \o w \o o \o l :
        h \in SelectHeads, w \in WhereClauses,
        o \in {<<>>, <<"ORDERBY", "k">>},
        l \in {<<>>, <<"LIMIT", NumText(1)>>}}

\* re.sub(pat, rep, q): every occurrence of the words pat, from the left
\* and without overlap, becomes rep.  With spaced, the pattern ends in \s+
\* and needs a word after the occurrence.
RECURSIVE Sub(_, _, _, _)
Sub(q, pat, rep, spaced) ==
    IF Len(q) < Len(pat) \/ (spaced /\ Len(q) = Len(pat)) THEN q
    ELSE IF SubSeq(q, 1, Len(pat)) = pat
    THEN rep \o Sub(SubSeq(q, Len(pat) + 1, Len(q)), pat, rep, spaced)
    ELSE <<Head(q)>> \o Sub(Tail(q), pat, rep, spaced)

HasWord(q, w) ==
    \E i \in 1..Len(q) : q[i] = w

\* apply_null_filters without the search for an existing NULL filter in
\* append mode (query_utils.py:67)
apply_null_filters_Unguarded(query, overwrite) ==
    IF overwrite
    THEN LET q1 == Sub(query, <<"WHERE", "colnull", "AND">>,
                       <<"WHERE", "1=1">>, FALSE)
             q2 == Sub(q1, <<"WHERE", "colnull">>, <<"WHERE", "1=1">>, FALSE)
         IN  Sub(q2, <<"AND", "colnull">>, <<"WHERE", "1=1">>, FALSE)
    ELSE IF HasWord(query, "WHERE")
    THEN Sub(query, <<"WHERE">>, <<"WHERE", "colnull", "AND">>, TRUE)
    ELSE query \o <<"WHERE", "colnull">>

\* query_utils.py:44-74
apply_null_filters(query, overwrite) ==
    IF overwrite
    THEN LET q1 == Sub(query, <<"WHERE", "colnull", "AND">>,
                       <<"WHERE", "1=1">>, FALSE)
             q2 == Sub(q1, <<"WHERE", "colnull">>, <<"WHERE", "1=1">>, FALSE)
         IN  Sub(q2, <<"AND", "colnull">>, <<"WHERE", "1=1">>, FALSE)
    ELSE IF HasWord(query, "colnull") THEN query
    ELSE IF HasWord(query, "WHERE")
    THEN Sub(query, <<"WHERE">>, <<"WHERE", "colnull", "AND">>, TRUE)
    ELSE query \o <<"WHERE", "colnull">>

\* query_utils.py:77-103; limit 0 is no --limit
add_order_and_limit(query, limit) ==
    LET ordered ==
            IF HasWord(query, "ORDERBY") THEN query
            ELSE IF HasWord(query, "LIMIT")
            THEN Sub(query, <<"LIMIT">>, <<"ORDERBY", "rowid", "LIMIT">>, TRUE)
            ELSE query \o <<"ORDERBY", "rowid">>
    IN  IF limit = 0 THEN ordered
        ELSE IF ~HasWord(ordered, "LIMIT")
        THEN ordered \o <<"LIMIT", NumText(limit)>>
        ELSE [i \in 1..Len(ordered) |->
                IF i > 1 /\ ordered[i - 1] = "LIMIT" /\ ordered[i] \in NumTexts
                THEN NumText(limit)
                ELSE ordered[i]]

\* query_utils.py:8-41
ensure_rowid_in_query(query) ==
    IF HasWord(query, "rowid") \/ HasWord(query, "rowid,") THEN query
    ELSE Sub(query, <<"SELECT", "*", "FROM">>,
             <<"SELECT", "rowid,", "*", "FROM">>, FALSE)

\* EnrichmentService._build_query (enrichment_service.py:131-165) for a
\* direct_column strategy without --rowid and --sha1
plan(sql, overwrite, limit) ==
    ensure_rowid_in_query(
        add_order_and_limit(apply_null_filters(sql, overwrite), limit))

\* The source table: for each rowid, whether x holds and whether the
\* output column is NULL.
PlanRowIds ==
    1..NumPlanRows

\* the content hash of a row, and the hashes --sha1 may name
PlanSha1(r) ==
    IF r = 1 THEN "a" ELSE "b"

TargetSha1s ==
    {"a"}

\* the conditions of a targeted statement: rowid = K and sha1 = 'H'
RowidCond(k) ==
    <<"rowid=1", "rowid=2", "rowid=3", "rowid=4">>[k]

Sha1Cond(h) ==
    IF h = "a" THEN "sha1='a'" ELSE "sha1='b'"

TargetConds ==
    {RowidCond(k) : k \in 1..4} \cup {Sha1Cond(h) : h \in {"a", "b"}}

\* _build_query with the targeted statement passed on to the ordering and
\* limit step instead of being returned
build_query_Rewritten(sql, overwrite, limit, rowid, sha1) ==
    IF rowid # 0
    THEN add_order_and_limit(<<"SELECT", "rowid,", "*", "FROM", "t", "WHERE",
                               RowidCond(rowid)>>, limit)
    ELSE IF sha1 # "None"
    THEN add_order_and_limit(<<"SELECT", "rowid,", "*", "FROM", "t", "WHERE",
                               Sha1Cond(sha1)>>, limit)
    ELSE plan(sql, overwrite, limit)

\* EnrichmentService._build_query (enrichment_service.py:131-165), and
\* the same decision in _async_cli (main.py:435-448); rowid 0 is no
\* --rowid and sha1 "None" is no --sha1
build_query(sql, overwrite, limit, rowid, sha1) ==
    IF rowid # 0
    THEN <<"SELECT", "rowid,", "*", "FROM", "t", "WHERE", RowidCond(rowid)>>
    ELSE IF sha1 # "None"
    THEN <<"SELECT", "rowid,", "*", "FROM", "t", "WHERE", Sha1Cond(sha1)>>
    ELSE plan(sql, overwrite, limit)

Tables ==
    [PlanRowIds -> [x : BOOLEAN, null : BOOLEAN]]

\* The parts of a statement as SQLite reads it:
\*   head  SELECT ... FROM t
\*   cond  WHERE c (AND|OR c)*, or nothing
\*   order ORDER BY key, or nothing
\*   limit LIMIT n, or nothing
LimitPart(q) ==
    IF Len(q) >= 2 /\ q[Len(q) - 1] = "LIMIT" /\ q[Len(q)] \in NumTexts
    THEN SubSeq(q, Len(q) - 1, Len(q))
    ELSE <<>>

BeforeLimit(q) ==
    SubSeq(q, 1, Len(q) - Len(LimitPart(q)))

OrderPart(q) ==
    LET b == BeforeLimit(q)
    IN  IF Len(b) >= 2 /\ b[Len(b) - 1] = "ORDERBY" /\ b[Len(b)] \in {"rowid", "k"}
        THEN SubSeq(b, Len(b) - 1, Len(b))
        ELSE <<>>

HeadLen(q) ==
    IF Len(q) >= 5 /\ SubSeq(q, 1, 5) \in SelectHeads THEN 5
    ELSE IF Len(q) >= 4 /\ SubSeq(q, 1, 4) \in SelectHeads THEN 4
    ELSE 0

CondPart(q) ==
    SubSeq(q, HeadLen(q) + 1, Len(BeforeLimit(q)) - Len(OrderPart(q)))

\* SQLite accepts the statement
WellFormed(q) ==
    LET c == CondPart(q)
    IN  /\ HeadLen(q) > 0
        /\ \/ c = <<>>
           \/ /\ Len(c) % 2 = 0
              /\ c[1] = "WHERE"
              /\ \A i \in 2..Len(c) :
                    IF i % 2 = 0
                    THEN c[i] \in Conds \cup {"1=1"} \cup TargetConds
                    ELSE c[i] \in {"AND", "OR"}

\* the row satisfies the condition word
Holds(w, row) ==
    IF w = "x" THEN row.x
    ELSE IF w = "colnull" THEN row.null
    ELSE IF w \in {RowidCond(k) : k \in 1..4} THEN w = RowidCond(row.rowid)
    ELSE IF w \in TargetConds THEN w = Sha1Cond(row.sha1)
    ELSE TRUE

\* the row satisfies the WHERE clause c: AND binds tighter than OR
Satisfies(c, row) ==
    \/ c = <<>>
    \/ \E a, b \in 1..(Len(c) \div 2) :
          /\ a <= b
          /\ a = 1 \/ c[2 * a - 1] = "OR"
          /\ b = Len(c) \div 2 \/ c[2 * b + 1] = "OR"
          /\ \A j \in a..b : Holds(c[2 * j], row)
          /\ \A j \in a..(b - 1) : c[2 * j + 1] = "AND"

\* the rowids the statement returns on the table, or an error
\* (_execute_query, enrichment_service.py:168-190)
Execute(q, table) ==
    IF ~WellFormed(q) THEN [run |-> TRUE, ok |-> FALSE, rows |-> {}]
    ELSE
        LET row(r) == [x |-> table[r].x, null |-> table[r].null,
                       rowid |-> r, sha1 |-> PlanSha1(r)]
            match == {r \in PlanRowIds : Satisfies(CondPart(q), row(r))}
            byK == OrderPart(q) = <<"ORDERBY", "k">>
            \* r comes before s in the order of the statement
            Before(r, s) == IF byK THEN r > s ELSE r < s
            n == IF LimitPart(q) = <<>> THEN NumPlanRows
                 ELSE CHOOSE m \in 1..4 : NumText(m) = LimitPart(q)[2]
        IN  [run |-> TRUE, ok |-> TRUE,
             rows |-> {r \in match :
                         Cardinality({s \in match : Before(s, r)}) < n}]

NoResult ==
    [run |-> FALSE, ok |-> FALSE, rows |-> {}]

\* One selection planned under both settings of --overwrite.
\*   sql      the configured selection
\*   limit    --limit, 0 when not given
\*   rowid    --rowid, 0 when not given
\*   sha1     --sha1, "None" when not given
\*   table    the source table
\*   plans    the planned statement for overwrite=FALSE and TRUE
\*   replans  the plan of the planned statement
\*   results  what the planned statement returned
IdlePlanner ==
    [sql |-> <<>>, limit |-> 0, rowid |-> 0, sha1 |-> "None",
     table |-> [r \in PlanRowIds |-> [x |-> FALSE, null |-> TRUE]],
     plans |-> [o \in BOOLEAN |-> None],
     replans |-> [o \in BOOLEAN |-> None],
     results |-> [o \in BOOLEAN |-> NoResult]]

\* _build_query (enrichment_service.py:131-165)
BuildQuery(overwrite) ==
    /\ planner.plans[overwrite] = None
    /\ planner' = [planner EXCEPT
                     !.plans[overwrite] =
                        build_query(planner.sql, overwrite, planner.limit,
                                    planner.rowid, planner.sha1)]
    /\ UNCHANGED <<database, prep, field, elist, misc>>

\* the planned statement is given to _build_query again
RebuildQuery(overwrite) ==
    /\ planner.plans[overwrite] # None
    /\ planner.replans[overwrite] = None
    /\ planner' = [planner EXCEPT
                     !.replans[overwrite] =
                        build_query(planner.plans[overwrite], overwrite,
                                    planner.limit, planner.rowid,
                                    planner.sha1)]
    /\ UNCHANGED <<database, prep, field, elist, misc>>

\* _execute_query (enrichment_service.py:168-190)
ExecuteQuery(overwrite) ==
    /\ planner.plans[overwrite] # None
    /\ ~planner.results[overwrite].run
    /\ planner' = [planner EXCEPT
                     !.results[overwrite] = Execute(planner.plans[overwrite],
                                                    planner.table)]
    /\ UNCHANGED <<database, prep, field, elist, misc>>

(* ---- get_db_connection ------------------------------------------------ *)

\* What a statement or sqlite3.connect may raise:
\*   "locked"       OperationalError "database is locked"
\*   "unopenable"   OperationalError "unable to open database file"
\*   "operational"  any other OperationalError
\*   "other"        any other exception
ErrorKinds ==
    {"locked", "unopenable", "operational", "other"}

\* the errors get_db_connection retries (db_operations.py:31-33)
Transient ==
    {"locked", "unopenable"}

\* a wait that does not grow with the attempt n
wait_time_Constant(n) ==
    2

\* wait_time after the failed attempt n, counted from 0
\* (db_operations.py:35)
wait_time(n) ==
    (n + 1) * 2

\* One `with get_db_connection(db_path) as conn:` of a caller.
\*   pc        "connect": the generator is in the try block before yield;
\*             "sleep": in time.sleep; "body": suspended at yield while the
\*             caller's body runs; "returned", "raised": the with statement
\*             is over
\*   attempt   the loop variable
\*   waits     the arguments of time.sleep, in order
\*   opens     calls of sqlite3.connect
\*   bodyRuns  executions of the caller's body
\*   thrown    the error the body raised into the generator, or "none"
\*   errors    the errors the except clauses handled, in order
\*   caller    what the with statement gave the caller: "none" while it
\*             runs, "ok", or the error raised
IdleConn ==
    [pc |-> "connect", attempt |-> 0, waits |-> <<>>, opens |-> 0,
     bodyRuns |-> 0, thrown |-> "none", errors |-> <<>>, caller |-> "none"]

\* the except clauses of get_db_connection on an error e raised in the try
\* block, by the connection set-up or thrown in at yield
\* (db_operations.py:31-54)
Handled(c, e) ==
    LET seen == [c EXCEPT !.errors = Append(@, e)]
    IN  IF e \in Transient /\ c.attempt < MAX_RETRY_ATTEMPTS - 1
        THEN [seen EXCEPT !.pc = "sleep",
                          !.waits = Append(@, wait_time(c.attempt))]
        ELSE [seen EXCEPT !.pc = "raised", !.caller = e]

\* sqlite3.connect and the PRAGMAs (db_operations.py:19-28).  When they
\* succeed the generator yields; a generator that yields again after
\* the body's error was thrown into it makes contextlib raise
\* RuntimeError("generator didn't stop after throw()") in the caller.
Connect(o) ==
    /\ conn.pc = "connect"
    /\ LET c == [conn EXCEPT !.opens = @ + 1]
       IN  conn' = IF o # "ok" THEN Handled(c, o)
                   ELSE IF conn.thrown = "none" THEN [c EXCEPT !.pc = "body"]
                   ELSE [c EXCEPT !.pc = "raised", !.caller = "RuntimeError"]
    /\ UNCHANGED <<database, prep, field, elist, planner, wal, cost, proj>>

\* time.sleep(wait_time) returns and the loop takes the next attempt
\* (db_operations.py:17, 38)
SleepReturns ==
    /\ conn.pc = "sleep"
    /\ conn' = [conn EXCEPT !.pc = "connect", !.attempt = @ + 1]
    /\ UNCHANGED <<database, prep, field, elist, planner, wal, cost, proj>>

\* The caller's body runs (e.g. db_operations.py:598-610).  When it ends
\* the generator closes the connection and returns (db_operations.py:
\* 29-30); when a statement raises, contextlib throws the error into the
\* generator at yield, inside the try block.
BodyRuns(o) ==
    /\ conn.pc = "body"
    /\ LET c == [conn EXCEPT !.bodyRuns = @ + 1]
       IN  conn' = IF o = "ok"
                   THEN [c EXCEPT !.pc = "returned", !.caller = "ok"]
                   ELSE Handled([c EXCEPT !.thrown = o], o)
    /\ UNCHANGED <<database, prep, field, elist, planner, wal, cost, proj>>

(* ---- WAL checkpoints -------------------------------------------------- *)

\* The batches of one run: process_batch is called once for each model
\* pass (llm_operations.py:999), EnrichmentProcessor.process_batch once for
\* each call of process_dataframe (enrichment.py:300).
\*   engine       "batch" or "processor"
\*   pc           "run": a batch may start; "gathered": asyncio.gather of
\*                the batch returned
\*   batches      batches started
\*   last         rows with a truthy 'updated' in the batch that returned
\*   done         such rows in all batches that returned
\*   checkpoints  calls of checkpoint_wal
\*   missed       a batch took `done` past a multiple of CheckpointEvery
\*                and ended without a call of checkpoint_wal
IdleWal ==
    [engine |-> "batch", pc |-> "run", batches |-> 0, last |-> 0,
     done |-> 0, checkpoints |-> 0, missed |-> FALSE]

\* llm_operations.py:646-647: the rows of this batch alone are counted,
\* and the count has to be a multiple of the interval
BatchCheckpointDue(total_processed) ==
    total_processed > 0 /\ total_processed % CheckpointEvery = 0

\* enrichment.py:107: suppress_wal_checkpoint is passed by no caller
ProcessorCheckpointDue ==
    TRUE

\* asyncio.gather returns with n successfully processed rows
\* (llm_operations.py:641-642, enrichment.py:104)
BatchGathered(n) ==
    /\ wal.pc = "run"
    /\ wal.batches < MaxBatches
    /\ wal' = [wal EXCEPT !.pc = "gathered", !.batches = @ + 1, !.last = n]
    /\ UNCHANGED <<database, prep, field, elist, planner, conn, cost, proj>>

\* the end of process_batch: the checkpoint decision and the call of
\* checkpoint_wal (llm_operations.py:644-651, enrichment.py:106-110;
\* db_operations.py:301-308)
BatchEnds ==
    /\ wal.pc = "gathered"
    /\ LET due == IF wal.engine = "batch" THEN BatchCheckpointDue(wal.last)
                  ELSE ProcessorCheckpointDue
           passed == (wal.done + wal.last) \div CheckpointEvery
                        > wal.done \div CheckpointEvery
       IN  wal' = [wal EXCEPT
                     !.pc = "run",
                     !.done = @ + wal.last,
                     !.checkpoints = IF due THEN @ + 1 ELSE @,
                     !.missed = @ \/ (passed /\ ~due)]
    /\ UNCHANGED <<database, prep, field, elist, planner, conn, cost, proj>>

(* ---- cost confirmation (main.py:585-694) -------------------------------- *)

CostModels ==
    1..MaxModels

\* should_confirm_cost with a threshold that is itself confirmed
should_confirm_cost_Inclusive(total_cost, threshold) ==
    total_cost >= threshold

\* cost_estimation.py:255-257
should_confirm_cost(total_cost, threshold) ==
    total_cost > threshold

\* cost_estimation.py:162-225: tokens per row, times the rows to process,
\* times the price of the model
estimate_enrichment_cost(price, rows_to_process) ==
    price * rows_to_process

\* The model loop of one enrichment.
\*   pc         loop, check, confirm, process, aborted
\*   skip       --skip-cost-check
\*   threshold  --cost-threshold
\*   model      the index of the current model pass
\*   rows       rows_to_process_for_model of each pass
\*   price      the estimated cost of one row with each model
\*   asked      click.confirm was called in the pass
\*   outcome    pending, empty, confirming, declined, processing,
\*              processed, aborted
\*   done, calls, writes   rows handled, provider calls and projected
\*              writes of each pass
IdleCost ==
    [pc |-> "loop", skip |-> FALSE, threshold |-> 0, model |-> 0,
     rows |-> [m \in CostModels |-> 0],
     price |-> [m \in CostModels |-> 0],
     asked |-> [m \in CostModels |-> FALSE],
     outcome |-> [m \in CostModels |-> "pending"],
     done |-> [m \in CostModels |-> 0],
     calls |-> [m \in CostModels |-> 0],
     writes |-> [m \in CostModels |-> 0]]

\* the next model of the loop; a pass with nothing to process is left at
\* once (main.py:585, 627-630)
NextModel ==
    /\ cost.pc = "loop"
    /\ cost.model < MaxModels
    /\ LET m == cost.model + 1
       IN  cost' = IF cost.rows[m] = 0
                   THEN [cost EXCEPT !.model = m, !.outcome[m] = "empty"]
                   ELSE [cost EXCEPT !.model = m, !.pc = "check"]
    /\ UNCHANGED <<database, prep, field, elist, planner, conn, wal, proj>>

\* main.py:632-665: the estimate and the decision to ask
CostCheck ==
    /\ cost.pc = "check"
    /\ LET m == cost.model
           total_cost == estimate_enrichment_cost(cost.price[m], cost.rows[m])
       IN  cost' = IF ~cost.skip /\ should_confirm_cost(total_cost,
                                                        cost.threshold)
                   THEN [cost EXCEPT !.pc = "confirm", !.asked[m] = TRUE,
                                     !.outcome[m] = "confirming"]
                   ELSE [cost EXCEPT !.pc = "process",
                                     !.outcome[m] = "processing"]
    /\ UNCHANGED <<database, prep, field, elist, planner, conn, wal, proj>>

\* main.py:666-668: the answer to click.confirm; without a terminal click
\* raises Abort and the command ends
Confirm(answer) ==
    /\ cost.pc = "confirm"
    /\ LET m == cost.model
       IN  cost' = IF answer = "y"
                   THEN [cost EXCEPT !.pc = "process",
                                     !.outcome[m] = "processing"]
                   ELSE IF answer = "n"
                   THEN [cost EXCEPT !.pc = "loop", !.outcome[m] = "declined"]
                   ELSE [cost EXCEPT !.pc = "aborted",
                                     !.outcome[m] = "aborted"]
    /\ UNCHANGED <<database, prep, field, elist, planner, conn, wal, proj>>

\* process_enrichment handles one row of the pass: a provider call, and a
\* projected write when the call gave data (main.py:677-693)
CostProcessRow(ok) ==
    /\ cost.pc = "process"
    /\ LET m == cost.model
       IN  /\ cost.done[m] < cost.rows[m]
           /\ cost' = [cost EXCEPT !.done[m] = @ + 1, !.calls[m] = @ + 1,
                                   !.writes[m] = IF ok THEN @ + 1 ELSE @]
    /\ UNCHANGED <<database, prep, field, elist, planner, conn, wal, proj>>

\* process_enrichment returns (main.py:693)
PassEnds ==
    /\ cost.pc = "process"
    /\ LET m == cost.model
       IN  /\ cost.done[m] = cost.rows[m]
           /\ cost' = [cost EXCEPT !.pc = "loop", !.outcome[m] = "processed"]
    /\ UNCHANGED <<database, prep, field, elist, planner, conn, wal, proj>>

(* ---- the projected write of one result --------------------------------- *)
(* llm_operations.py:401-461 and 596-638, enrichment.py:238-290             *)

\* the fields of the schema; field 1 is output_columns[0]
ProjFields ==
    1..MaxFields

\* the values a field of a result may carry: None, '', 'null', [] and, as
\* data, a text and a non-empty list
NullLike ==
    {"None", "empty", "null", "emptylist"}

Data ==
    {"text", "list"}

FieldValues ==
    NullLike \cup Data

\* A row result: ok is FALSE for an error result ('updated' is None).  On
\* the structured and the processor path 'updated' is the dictionary of
\* the fields, on the legacy path it is the value of the one output
\* column.
ErrorResult ==
    [ok |-> FALSE, fields |-> <<>>]

ResultsOf(n) ==
    {[ok |-> TRUE, fields |-> f] : f \in [1..n -> FieldValues]}

\* result.get('updated') is truthy: a dictionary with keys, or on the
\* legacy path a value that Python takes as true
Truthy(pth, result) ==
    /\ result.ok
    /\ pth = "l" => result.fields[1] \notin {"None", "empty", "emptylist"}

\* db_operations.py:704-803: the fields without meaningful data are left
\* out, and nothing is written when none is left; an existing row keeps
\* its other columns
update_output_table(d, output_data) ==
    LET cleaned == {f \in DOMAIN output_data : output_data[f] \notin NullLike}
    IN  IF cleaned = {} THEN d
        ELSE [present |-> TRUE,
              cols |-> [f \in ProjFields |->
                          IF f \in cleaned THEN output_data[f]
                          ELSE IF d.present THEN d.cols[f] ELSE "NULL"]]

\* db_operations.py:325-370: UPDATE <table> SET <output_col> = ?.  The
\* value is bound as it is: None becomes NULL, and a list is refused by
\* sqlite3 with an error that the loop logs.
update_database(col, updated) ==
    IF updated \in {"emptylist", "list"} THEN col
    ELSE IF updated = "None" THEN "NULL"
    ELSE updated

NoDerivedRow ==
    [present |-> FALSE, cols |-> [f \in ProjFields |-> "NULL"]]

PriorDerivedRow ==
    [present |-> TRUE, cols |-> [f \in ProjFields |-> "old"]]

\* One row result on its way into the database.
\*   pc        idle, result, project, fallback, done
\*   path      "s" process_row_structured, "l" process_row, "p" processor
\*   storage   the storage mode of the strategy
\*   n         the number of fields of the schema
\*   result    the row result
\*   col, derived    the output column of the source row and the derived
\*             row of the pair; col0 and derived0 as they were before
\*   audits    the audit rows appended
\*   calls     the provider calls made for the row
IdleProj ==
    [pc |-> "idle", path |-> "s", storage |-> "direct_column", n |-> 1,
     result |-> ErrorResult, col |-> "NULL", col0 |-> "NULL",
     derived |-> NoDerivedRow, derived0 |-> NoDerivedRow,
     audits |-> 0, calls |-> 0]

\* store_raw_enrichment_response (llm_operations.py:405-423, 486-498,
\* 599-611; enrichment.py:240-251)
ProjStoreAudit ==
    /\ proj.pc = "result"
    /\ proj' = [proj EXCEPT !.pc = "project", !.audits = @ + 1]
    /\ UNCHANGED <<database, prep, field, elist, planner, conn, wal, cost>>

\* the write that follows the audit row
\*  "s" llm_operations.py:425-461: the derived table when 'updated' is
\*      truthy and the mode is separate_table; otherwise the branch of the
\*      direct column, which for one output column reads
\*      result['updated'].get(column) (AttributeError on an error
\*      result, caught at 456-459 and followed by the legacy processor);
\*  "l" llm_operations.py:613-638;
\*  "p" enrichment.py:254-290.
ProjectedWrite ==
    /\ proj.pc = "project"
    /\ LET r == proj.result
           toDerived(data) ==
               [proj EXCEPT !.pc = "done",
                            !.derived = update_output_table(@, data)]
           toColumn(v) ==
               [proj EXCEPT !.pc = "done", !.col = update_database(@, v)]
           nothing == [proj EXCEPT !.pc = "done"]
       IN  proj' =
             CASE proj.path = "s" ->
                    IF Truthy("s", r) /\ proj.storage = "separate_table"
                    THEN toDerived(r.fields)
                    ELSE IF proj.n = 1
                         THEN IF r.ok THEN toColumn(r.fields[1])
                              ELSE [proj EXCEPT !.pc = "fallback"]
                         ELSE nothing
               [] proj.path = "l" ->
                    IF ~Truthy("l", r) THEN nothing
                    ELSE IF proj.storage = "separate_table"
                         THEN toDerived(r.fields)
                         ELSE toColumn(r.fields[1])
               [] OTHER ->
                    IF ~Truthy("p", r) THEN nothing
                    ELSE IF proj.storage = "separate_table"
                         THEN toDerived(r.fields)
                         ELSE toColumn(r.fields[1])
    /\ UNCHANGED <<database, prep, field, elist, planner, conn, wal, cost>>

\* the legacy processor takes the row over: a second provider call and its
\* result (llm_operations.py:461-596)
LegacyFallback(result) ==
    /\ proj.pc = "fallback"
    /\ proj' = [proj EXCEPT !.pc = "result", !.path = "l",
                            !.result = result, !.calls = @ + 1]
    /\ UNCHANGED <<database, prep, field, elist, planner, conn, wal, cost>>

\* no connection is in use, no batch has run, no cost was estimated
MiscIdle ==
    /\ conn = IdleConn
    /\ wal = IdleWal
    /\ cost = IdleCost
    /\ proj = IdleProj

\* the other specifications leave the preparation, the field validation
\* and the planner alone
PureIdle ==
    /\ job = IdleJob
    /\ task = IdleTask
    /\ field = IdleField
    /\ elist = IdleList
    /\ planner = IdlePlanner
    /\ MiscIdle

(* ---- configurations and prior store contents -------------------------- *)

\* The resolved strategy and the flags of one run.
\*   engine    "batch": process_batch of llm_operations.py driven by
\*             _async_cli; "processor": EnrichmentProcessor.process_batch
\*   storage   EnrichmentStrategy.storage_mode
\*   nFields   number of schema fields = len(strategy.output_columns)
\*   byLine    enrichment name is 'translate_to_english_by_line'
\*   models    the list of models of the task
\*   hasUnique the derived table carries UNIQUE(sha1, model_used): it does
\*             when ensure_output_table created it, it need not when the
\*             table existed before (ensure_output_table only adds columns)
\*   dup       the row stream holds two rows with the same sha1
\*   target    --rowid K (0: no row targeting)
\*   hist      what an earlier run left behind for sha1 "A" and model "m1":
\*             "ok" a success audit row and the projected content, "oknc" a
\*             success audit row whose projected write did not happen,
\*             "err" an error audit row, "content" content without an
\*             audit row, "other" an audit row of another enrichment
\*   legacy    the database comes from an earlier release whose audit table
\*             has a UNIQUE constraint on the triple: "bare" its rows have
\*             no prompt_id and full_prompt, "full" they have
AllConfigs ==
    [engine : {"batch", "processor"},
     storage : {"direct_column", "separate_table"},
     nFields : {1, 2},
     byLine : BOOLEAN,
     overwrite : BOOLEAN,
     models : {<<"m1">>, <<"m1", "m2">>, <<"m1", "mx">>},
     hasUnique : BOOLEAN,
     dup : BOOLEAN,
     target : {0, 1},
     hist : {"fresh", "ok", "oknc", "err", "content", "other"},
     legacy : {"no", "bare", "full"}]

\* determine_enrichment_strategy: a complex schema without output_table is
\* rejected before any run, so no run has such a strategy
StrategyResolves(c) ==
    c.nFields > 1 => c.storage = "separate_table"

\* The configurations explored.  The restrictions only bound the search:
\* they keep one source of variation per configuration.
Configs ==
    {c \in AllConfigs :
        /\ StrategyResolves(c)
        /\ c.storage = "direct_column" => c.hasUnique
        /\ c.dup => c.storage = "separate_table" /\ c.hist = "fresh"
                      /\ c.target = 0 /\ ~c.byLine /\ Len(c.models) = 1
        /\ c.byLine => c.nFields = 1 /\ c.hist = "fresh" /\ c.target = 0
                         /\ Len(c.models) = 1 /\ c.engine = "batch"
                         /\ c.hasUnique /\ ~c.overwrite
        /\ c.hist # "fresh" => c.target = 1
        /\ Len(c.models) > 1 =>
              /\ c.engine = "batch"
              /\ \/ c.target = 1
                 \/ /\ c.hist = "fresh" /\ c.nFields = 2 /\ ~c.overwrite
                    /\ c.hasUnique /\ c.storage = "separate_table"
        /\ (\E i \in 1..Len(c.models) : ~validate_model(c.models[i])) =>
              c.hist = "fresh" /\ ~c.overwrite /\ c.hasUnique
        /\ c.engine = "processor" => c.hist = "fresh" /\ ~c.overwrite
                                      /\ c.hasUnique /\ c.target = 0
                                      /\ ~c.dup /\ Len(c.models) = 1
        /\ c.legacy # "no" => /\ c.hist = "ok" /\ c.engine = "batch"
                              /\ c.storage = "direct_column"
                              /\ Len(c.models) = 1 /\ c.hasUnique}

Sha1Of(r) ==
    IF cfg.dup /\ r = 2 THEN "A" ELSE DistinctSha1(r)

CurModel ==
    cfg.models[passIdx]

\* the audit row when the enrichment_id is not handed to
\* store_raw_enrichment_response: the row does not carry the id of the call
AuditRec_NoId(e, s, n, m, ok, raw) ==
    [eid |-> NoVal, sha1 |-> s, name |-> n, model |-> m, ok |-> ok,
     raw |-> raw, lineage |-> "set"]

\* raw stands for raw_json: the number of the provider call of the row whose
\* response it serializes, 0 for an error object or a row of an earlier run.
\* lineage stands for the columns prompt_id and full_prompt: "set" when
\* the row carries them, "null" when they are NULL or not in the table.
AuditRec(e, s, n, m, ok, raw) ==
    [eid |-> e, sha1 |-> s, name |-> n, model |-> m, ok |-> ok,
     raw |-> raw, lineage |-> "set"]

\* id is the AUTOINCREMENT primary key of the derived table
DerivedRow(i, s, m, e) ==
    [id |-> i, sha1 |-> s, model |-> m, eid |-> e]

\* store contents left by an earlier run for sha1 "A" and model "m1"
PriorAudit(c) ==
    LET rows ==
          CASE c.hist \in {"ok", "oknc"} ->
                  {AuditRec(PreEid, "A", ThisName, "m1", TRUE, 0)}
            [] c.hist = "err" ->
                  {AuditRec(PreEid, "A", ThisName, "m1", FALSE, 0)}
            [] c.hist = "other" ->
                  {AuditRec(PreEid, "A", OtherName, "m1", TRUE, 0)}
            [] OTHER -> {}
    IN  IF c.legacy = "bare"
        THEN {[a EXCEPT !.lineage = "null"] : a \in rows}
        ELSE rows

\* the schema of enrichment_responses an earlier release left behind:
\*   "current"      the table of db_operations.py:506-518
\*   "constrained"  a table whose CREATE statement carries UNIQUE(sha1,
\*                  enrichment_name) or UNIQUE(sha1, enrichment_name,
\*                  model_used)
\*   "migrated"     the table the migration builds: no full_prompt column
PriorAuditSchema(c) ==
    IF c.legacy = "no" THEN "current" ELSE "constrained"

HasPriorContent(c) ==
    c.hist \in {"ok", "content"}

PriorDerived(c) ==
    IF HasPriorContent(c) /\ c.storage = "separate_table"
    THEN {DerivedRow(1, "A", "m1", PreEid)}
    ELSE {}

PriorSrcCol(c) ==
    [s \in Sha1s |->
        IF HasPriorContent(c) /\ c.storage = "direct_column" /\ s = "A"
        THEN PreEid ELSE NoVal]

\* the output column exists in the source table when an earlier run of
\* the enrichment wrote to that table
PriorColumn(c) ==
    c.storage = "direct_column" /\ c.hist \notin {"fresh", "other"}

Init ==
    /\ cfg \in Configs
    /\ hasColumn = PriorColumn(cfg)
    /\ auditSchema = PriorAuditSchema(cfg)
    /\ audit = PriorAudit(cfg)
    /\ derived = PriorDerived(cfg)
    /\ srcCol = PriorSrcCol(cfg)
    /\ projLog = {}
    /\ phase = "init"
    /\ passIdx = 1
    /\ pc = [r \in RowIds |-> "none"]
    /\ path = [r \in RowIds |-> "s"]
    /\ attempt = [r \in RowIds |-> 0]
    /\ res = [r \in RowIds |-> "none"]
    /\ exists = [r \in RowIds |-> FALSE]
    /\ chunk = [r \in RowIds |-> [k \in 1..NumChunks |-> "idle"]]
    /\ apiHeld = 0
    /\ dbHeld = 0
    /\ faults = 0
    /\ calls = [p \in Passes |-> [r \in RowIds |-> 0]]
    /\ nCalls = 0
    /\ ended = [r \in RowIds |-> "none"]
    /\ results = {}
    /\ snapCol = [s \in Sha1s |-> NoVal]
    /\ prompts = {}
    /\ minted = 0
    /\ inputs = [i \in InputIds |-> ConfigInput]
    /\ client = [c \in Clients |-> IdleClient]
    /\ returned = {}
    /\ nLookups = 0
    /\ PureIdle

\* the run whose database the registry calls of PromptSpec work on
RegistryCfg ==
    CHOOSE c \in Configs :
        /\ c.hist = "fresh" /\ c.engine = "batch" /\ Len(c.models) = 1
        /\ c.target = 0 /\ ~c.dup /\ ~c.byLine /\ c.legacy = "no"

\* A fresh database and two inputs of get_or_create_prompt_id; the first
\* input belongs to this enrichment.
EngineIdle ==
    /\ cfg = RegistryCfg
    /\ hasColumn = PriorColumn(cfg)
    /\ auditSchema = PriorAuditSchema(cfg)
    /\ audit = PriorAudit(cfg)
    /\ derived = PriorDerived(cfg)
    /\ srcCol = PriorSrcCol(cfg)
    /\ projLog = {}
    /\ phase = "init"
    /\ passIdx = 1
    /\ pc = [r \in RowIds |-> "none"]
    /\ path = [r \in RowIds |-> "s"]
    /\ attempt = [r \in RowIds |-> 0]
    /\ res = [r \in RowIds |-> "none"]
    /\ exists = [r \in RowIds |-> FALSE]
    /\ chunk = [r \in RowIds |-> [k \in 1..NumChunks |-> "idle"]]
    /\ apiHeld = 0
    /\ dbHeld = 0
    /\ faults = 0
    /\ calls = [p \in Passes |-> [r \in RowIds |-> 0]]
    /\ nCalls = 0
    /\ ended = [r \in RowIds |-> "none"]
    /\ results = {}
    /\ snapCol = [s \in Sha1s |-> NoVal]

PromptInit ==
    /\ EngineIdle
    /\ prompts = {}
    /\ minted = 0
    /\ inputs \in {f \in [InputIds -> PromptInputs] : f[1].e = ThisName}
    /\ client = [c \in Clients |-> IdleClient]
    /\ returned = {}
    /\ nLookups = 0
    /\ PureIdle

\* no enrichment runs and no prompt is looked up
StoreIdle ==
    /\ EngineIdle
    /\ prompts = {}
    /\ minted = 0
    /\ inputs = [i \in InputIds |-> ConfigInput]
    /\ client = [c \in Clients |-> IdleClient]
    /\ returned = {}
    /\ nLookups = 0

(* ---- the planner and the skip decision -------------------------------- *)

\* main.py:411-445.  The rows the planned statement returns: --rowid K
\* bypasses the rewriting; in direct_column mode without overwrite the
\* statement carries "<output_column> IS NULL".
PlannedRows ==
    IF cfg.target # 0
    THEN {r \in RowIds : r = cfg.target}
    ELSE IF Len(cfg.models) > 1
         THEN {r \in RowIds : r <= MaxMultiModelRows}
         ELSE IF cfg.storage = "direct_column" /\ ~cfg.overwrite
              THEN {r \in RowIds : srcCol[Sha1Of(r)] = NoVal}
              ELSE RowIds

\* the audit check when only success rows count as "already tried"
HasAuditRow_SuccessOnly(s, m) ==
    \E a \in audit : a.sha1 = s /\ a.name = ThisName /\ a.model = m /\ a.ok

\* SELECT 1 FROM enrichment_responses WHERE sha1 = ? AND enrichment_name = ?
\* AND model_used = ? LIMIT 1   (llm_operations.py:268-272)
HasAuditRow(s, m) ==
    \E a \in audit : a.sha1 = s /\ a.name = ThisName /\ a.model = m

\* the lookup in the derived table when the model is left out of the key
HasDerivedRow_AnyModel(s, m) ==
    \E d \in derived : d.sha1 = s

\* SELECT 1 FROM <output_table> WHERE sha1 = ? AND model_used = ?
HasDerivedRow(s, m) ==
    \E d \in derived : d.sha1 = s /\ d.model = m

\* main.py:592-630: rows_to_process_for_model
RowsToProcessForModel(m) ==
    IF cfg.overwrite
    THEN results
    ELSE IF cfg.storage = "separate_table"
         THEN {r \in results : ~HasDerivedRow(Sha1Of(r), m)}
         ELSE {r \in results : snapCol[Sha1Of(r)] = NoVal}

\* llm_operations.py:264-278: rows skipped on the audit log
AuditSkipped(m) ==
    {r \in results : HasAuditRow(Sha1Of(r), m)}

\* llm_operations.py:280-321: the "backward compatibility" check of the
\* output location, for rows not already skipped
OutputSkipped(m) ==
    LET done == {Sha1Of(r) : r \in AuditSkipped(m)}
    IN  IF cfg.storage = "separate_table"
        THEN {r \in results : Sha1Of(r) \notin done
                                /\ HasDerivedRow(Sha1Of(r), m)}
        ELSE {r \in results : Sha1Of(r) \notin done
                                /\ snapCol[Sha1Of(r)] # NoVal}

\* the skip decision when only the output location is consulted
SkippedRows_ContentOnly(m) ==
    IF cfg.overwrite THEN {} ELSE OutputSkipped(m)

\* llm_operations.py:254-321: skipped_rows
SkippedRows(m) ==
    IF cfg.overwrite THEN {} ELSE AuditSkipped(m) \cup OutputSkipped(m)

\* rows_to_process when the audit filter is applied whatever the overwrite
\* flag says
RowsToProcess_AuditFiltered(m) ==
    {r \in results : ~HasAuditRow(Sha1Of(r), m)}

\* llm_operations.py:353-355: rows_to_process, filtered on (rowid, sha1)
RowsToProcess(m) ==
    {r \in results : Sha1Of(r) \notin {Sha1Of(k) : k \in SkippedRows(m)}}

(* ---- _async_cli: the run and its model passes ------------------------- *)

FreshTasks(rows, pth) ==
    /\ pc' = [r \in RowIds |-> IF r \in rows THEN "start" ELSE "none"]
    /\ path' = [r \in RowIds |-> pth]
    /\ attempt' = [r \in RowIds |-> 0]
    /\ res' = [r \in RowIds |-> "none"]
    /\ exists' = [r \in RowIds |-> FALSE]
    /\ chunk' = [r \in RowIds |-> [k \in 1..NumChunks |-> "idle"]]
    /\ ended' = [r \in RowIds |-> "none"]

\* main.py:583-585,694: the head of the loop `for model in models`
NextPass ==
    IF passIdx < Len(cfg.models)
    THEN passIdx' = passIdx + 1 /\ phase' = "loop"
    ELSE passIdx' = passIdx /\ phase' = "done"

\* main.py:572-581: a multi-model task must target a derived table
MultiModelAllowed ==
    Len(cfg.models) > 1 => cfg.storage = "separate_table"

\* main.py:557-567: every model of the task is in the pricing table
ModelsSupported ==
    \A i \in 1..Len(cfg.models) : validate_model(cfg.models[i])

\* main.py:375-382 with db_operations.py:400-412: in direct_column mode the
\* output column is added to the source table when it is missing
ensure_output_column ==
    IF cfg.storage = "direct_column" THEN TRUE ELSE hasColumn

\* main.py:366-581: prepare the target of the writes, execute the planned
\* query, then validate the models
\* (click.UsageError for an unsupported model or a multi-model task without
\* derived table)
StartRun ==
    /\ phase = "init"
    /\ cfg.engine = "batch"
    /\ hasColumn' = ensure_output_column
    /\ results' = PlannedRows
    /\ snapCol' = srcCol
    /\ phase' = IF ModelsSupported /\ MultiModelAllowed
                THEN "loop" ELSE "rejected"
    /\ UNCHANGED <<auditSchema, prompts, minted, callers, pure, cfg, audit, derived, srcCol, projLog, passIdx, pc, path,
                   attempt, res, exists, chunk, apiHeld, dbHeld, faults,
                   calls, nCalls, ended>>

\* the row the migration copies (db_operations.py:556-559): the INSERT ...
\* SELECT lists id, enrichment_id, sha1, enrichment_name, raw_json,
\* model_used and created_at; prompt_id is not copied and the new table
\* has no full_prompt column
MigratedRow(a) ==
    [a EXCEPT !.lineage = "null"]

\* ensure_enrichment_responses_table (db_operations.py:499-592), the rows:
\* a table with the old constraint is rebuilt from the copied rows and the
\* old table is dropped
EnsuredAuditRows ==
    IF auditSchema = "constrained"
    THEN {MigratedRow(a) : a \in audit}
    ELSE audit

\* ensure_enrichment_responses_table, the schema: the ALTER TABLE of lines
\* 534-536 adds full_prompt to a table without it; the migration that
\* follows builds a table without it
EnsuredAuditSchema ==
    IF auditSchema = "constrained" THEN "migrated" ELSE "current"

\* main.py:585-693, process_enrichment (llm_operations.py:939-940) and
\* process_batch up to the creation of the tasks
\* (llm_operations.py:243-381, 641)
StartPass ==
    /\ phase = "loop"
    /\ IF RowsToProcessForModel(CurModel) = {}
       THEN /\ NextPass
            /\ UNCHANGED <<pc, path, attempt, res, exists, chunk, ended>>
       ELSE /\ FreshTasks(RowsToProcess(CurModel), "s")
            /\ IF RowsToProcess(CurModel) = {}
               THEN NextPass
               ELSE passIdx' = passIdx /\ phase' = "running"
    /\ prompts' = IF RowsToProcessForModel(CurModel) = {}
                  THEN prompts
                  ELSE Registered(prompts, ConfigInput, minted + 1)
    /\ minted' = Cardinality(prompts')
    /\ IF RowsToProcessForModel(CurModel) = {}
       THEN UNCHANGED <<audit, auditSchema>>
       ELSE /\ audit' = EnsuredAuditRows
            /\ auditSchema' = EnsuredAuditSchema
    /\ UNCHANGED <<hasColumn, callers, pure, cfg, derived, srcCol, projLog, apiHeld, dbHeld,
                   faults, calls, nCalls, results, snapCol>>

\* EnrichmentProcessor.process_batch (enrichment.py:32-104): one task per
\* row handed in; the method has no skip decision
ProcessorStart ==
    /\ phase = "init"
    /\ cfg.engine = "processor"
    /\ results' = RowIds
    /\ snapCol' = srcCol
    /\ FreshTasks(RowIds, "p")
    /\ phase' = "running"
    /\ UNCHANGED <<auditSchema, hasColumn, prompts, minted, callers, pure, cfg, audit, derived, srcCol, projLog, passIdx, apiHeld,
                   dbHeld, faults, calls, nCalls>>

\* asyncio.gather returned (llm_operations.py:642, enrichment.py:104)
EndPass ==
    /\ phase = "running"
    /\ \A r \in RowIds : pc[r] \in {"none", "done"}
    /\ NextPass
    /\ UNCHANGED <<auditSchema, hasColumn, prompts, minted, callers, pure, cfg, audit, derived, srcCol, projLog, pc, path, attempt,
                   res, exists, chunk, apiHeld, dbHeld, faults, calls,
                   nCalls, ended, results, snapCol>>

(* ---- the per-row tasks ------------------------------------------------ *)

\* positions in which an asyncio.to_thread database call of the task is
\* running
ThreadPcs ==
    {"audit", "uotc", "uotw", "upd"}

\* the enrichment_id minted by the row processor the task is in
MyEid(r) ==
    Eid(passIdx, r, path[r])

\* provider calls in flight: awaited generate_structured / generate_text
\* calls and awaited chunk requests of process_translation
InFlight ==
    Cardinality({r \in RowIds : pc[r] = "call"})
    + Cardinality({x \in RowIds \X (1..NumChunks) :
                      chunk[x[1]][x[2]] \in {"call1", "call2"}})

\* tasks whose database call is running
Writers ==
    Cardinality({r \in RowIds : pc[r] \in ThreadPcs})

\* the provider calls and database statements of row r may fail
Troubled(r) ==
    r <= MaxTroubled

\* `async with semaphore` can be entered (llm_operations.py:658, 794, 1028;
\* enrichment.py:132)
ApiPermitFree ==
    apiHeld < ApiLimit

\* a database semaphore that admits one task too many
DbPermitFree_OffByOne ==
    dbHeld <= DEFAULT_DB_SEMAPHORE_LIMIT

\* `async with db_semaphore` can be entered (llm_operations.py:402, 485,
\* 539, 599; enrichment.py:239)
DbPermitFree ==
    dbHeld < DEFAULT_DB_SEMAPHORE_LIMIT

\* the inner api_semaphore of process_translation (llm_operations.py:1062)
\* has a free permit for another chunk of row r
ChunkPermitFree(r) ==
    Cardinality({k \in 1..NumChunks :
                    chunk[r][k] \in {"call1", "sleep", "call2"}}) < ApiLimit

\* the task is in the line-by-line translation branch
\* (llm_operations.py:469)
InTranslation(r) ==
    path[r] = "l" /\ cfg.byLine

\* the event loop is being shut down: asyncio.run cancels the tasks, after
\* an exception left _async_cli or after SIGINT
Stopped ==
    phase \in {"aborted", "interrupted"}

\* cancellation that does not reach the tasks waiting for a semaphore
AfterCancel_KeepWaiting(k) ==
    IF pc[k] \in ThreadPcs \cup {"none", "done", "start", "wdb"} THEN pc[k]
    ELSE "cancelled"

\* Task.cancel() throws CancelledError into the coroutine at its current
\* await: no handler of process_and_save or of the row processors catches
\* it (they catch Exception; CancelledError derives from BaseException), so
\* the task ends there.  A task whose database call runs in a thread ends
\* when the thread is done.  (llm_operations.py:385-466, 658-788)
AfterCancel(k) ==
    IF pc[k] \in ThreadPcs \cup {"none", "done"} THEN pc[k]
    ELSE "cancelled"

\* An exception leaves process_and_save (llm_operations.py:468-639 has no
\* handler), so asyncio.gather raises into process_batch and _async_cli
\* (main.py:711-714) and asyncio.run cancels the remaining tasks.  A
\* database call already running in its thread completes.
Abort(r) ==
    /\ phase' = "aborted"
    /\ pc' = [k \in RowIds |-> IF k = r THEN "failed" ELSE AfterCancel(k)]
    /\ chunk' = [k \in RowIds |-> [j \in 1..NumChunks |-> "idle"]]
    /\ apiHeld' = 0
    /\ dbHeld' = dbHeld - 1
    /\ UNCHANGED <<path, res>>

\* An exception raised inside `async with db_semaphore` of task r.
\*  "s": caught at llm_operations.py:463-466, the task falls back to the
\*       legacy processing of the same row;
\*  "l": not caught;
\*  "p": caught at enrichment.py:208-221, an error result is returned.
Raise(r) ==
    IF Stopped
    THEN /\ pc' = [pc EXCEPT ![r] = "cancelled"]
         /\ dbHeld' = dbHeld - 1
         /\ UNCHANGED <<phase, path, res, chunk, apiHeld>>
    ELSE CASE path[r] = "s" ->
                /\ pc' = [pc EXCEPT ![r] = "start"]
                /\ path' = [path EXCEPT ![r] = "l"]
                /\ res' = [res EXCEPT ![r] = "none"]
                /\ dbHeld' = dbHeld - 1
                /\ UNCHANGED <<phase, chunk, apiHeld>>
           [] path[r] = "p" ->
                /\ pc' = [pc EXCEPT ![r] = "done"]
                /\ res' = [res EXCEPT ![r] = "err"]
                /\ dbHeld' = dbHeld - 1
                /\ apiHeld' = apiHeld - 1
                /\ UNCHANGED <<phase, path, chunk>>
           [] OTHER -> Abort(r)

\* the task leaves `async with db_semaphore` normally and returns
Finish(r) ==
    /\ pc' = [pc EXCEPT ![r] = IF Stopped THEN "cancelled"
                                ELSE "done"]
    /\ dbHeld' = dbHeld - 1
    /\ apiHeld' = IF path[r] = "p" /\ ~Stopped
                  THEN apiHeld - 1 ELSE apiHeld
    /\ UNCHANGED <<phase, path, res, chunk>>

\* the task starts its next database call
Goto(r, next) ==
    /\ pc' = [pc EXCEPT ![r] = next]
    /\ UNCHANGED <<phase, path, res, chunk, apiHeld, dbHeld>>

\* SIGINT while the tasks run: asyncio.run cancels the main task, gather
\* cancels the row tasks, _async_cli re-raises CancelledError (main.py:
\* 705-709) and enrich reports the interruption (main.py:177-183).  The
\* locals of a cancelled coroutine are gone with its frame.
Interrupt ==
    /\ phase = "running"
    /\ nCalls <= MaxCallsBeforeSigint
    /\ phase' = "interrupted"
    /\ pc' = [k \in RowIds |-> AfterCancel(k)]
    /\ chunk' = [k \in RowIds |-> [j \in 1..NumChunks |-> "idle"]]
    /\ apiHeld' = 0
    /\ attempt' = [k \in RowIds |->
                     IF AfterCancel(k) = "cancelled" THEN 0 ELSE attempt[k]]
    /\ res' = [k \in RowIds |->
                 IF AfterCancel(k) = "cancelled" THEN "none" ELSE res[k]]
    /\ UNCHANGED <<auditSchema, hasColumn, prompts, minted, callers, pure, cfg, audit, derived, srcCol, projLog, passIdx, path,
                   exists, dbHeld, faults, calls, nCalls, ended, results,
                   snapCol>>

\* process_row_structured / process_row / _process_single_row enter
\* `async with semaphore`, mint the enrichment_id, format the prompt and
\* issue the provider call (llm_operations.py:658-721, 794-863;
\* enrichment.py:132-171)
AcquireApi(r) ==
    /\ phase = "running"
    /\ pc[r] = "start"
    /\ ~InTranslation(r)
    /\ ApiPermitFree
    /\ apiHeld' = apiHeld + 1
    /\ pc' = [pc EXCEPT ![r] = "call"]
    /\ attempt' = [attempt EXCEPT ![r] = 0]
    /\ calls' = [calls EXCEPT ![passIdx][r] = @ + 1]
    /\ nCalls' = nCalls + 1
    /\ UNCHANGED <<auditSchema, hasColumn, prompts, minted, callers, pure, cfg, audit, derived, srcCol, projLog, phase, passIdx,
                   path, res, exists, chunk, dbHeld, faults, ended,
                   results, snapCol>>

\* the language-validation retry loop may run once more
\* (llm_operations.py:719, 752)
MayRetry(r) ==
    attempt[r] < max_retries

\* The awaited provider call of row r returns.
\*   "ok"   a result that passed conversion and language validation
\*   "lang" validate_languages raised LanguageValidationError
\*   "err"  any other exception (provider, transport, schema, conversion)
\* llm_operations.py:719-788 for "s", 863-912 for "l";
\* enrichment.py:156-221 for "p".
ProviderReturns(r, o) ==
    /\ phase = "running"
    /\ pc[r] = "call"
    /\ o = "lang" => path[r] = "s"
    /\ o # "ok" => Troubled(r)
    /\ IF o = "lang" /\ MayRetry(r)
       THEN /\ attempt' = [attempt EXCEPT ![r] = @ + 1]
            /\ calls' = [calls EXCEPT ![passIdx][r] = @ + 1]
            /\ nCalls' = nCalls + 1
            /\ UNCHANGED <<pc, res, apiHeld, ended>>
       ELSE IF path[r] = "p"
            THEN /\ res' = [res EXCEPT ![r] = o]
                 /\ pc' = [pc EXCEPT ![r] = IF o = "ok" THEN "wdb"
                                             ELSE "done"]
                 /\ apiHeld' = IF o = "ok" THEN apiHeld ELSE apiHeld - 1
                 /\ UNCHANGED <<attempt, calls, nCalls, ended>>
            ELSE /\ res' = [res EXCEPT ![r] = IF o = "ok" THEN "ok"
                                               ELSE "err"]
                 /\ pc' = [pc EXCEPT ![r] = "wdb"]
                 /\ apiHeld' = apiHeld - 1
                 /\ ended' = IF path[r] = "s"
                              THEN [ended EXCEPT ![r] = o] ELSE ended
                 /\ UNCHANGED <<attempt, calls, nCalls>>
    /\ UNCHANGED <<auditSchema, hasColumn, prompts, minted, callers, pure, cfg, audit, derived, srcCol, projLog, phase, passIdx,
                   path, exists, chunk, dbHeld, faults, results, snapCol>>

(* ---- process_translation (llm_operations.py:1024-1141) ---------------- *)

AllChunksDone(c) ==
    \A k \in 1..NumChunks : c[k] = "done"

\* enter `async with semaphore`, split the content into chunks and gather
\* process_chunk for each of them; every chunk coroutine enters the inner
\* api_semaphore if it can and issues its request
TranslationStart(r) ==
    /\ phase = "running"
    /\ pc[r] = "start"
    /\ InTranslation(r)
    /\ ApiPermitFree
    /\ apiHeld' = apiHeld + 1
    /\ pc' = [pc EXCEPT ![r] = "tcall"]
    /\ chunk' = [chunk EXCEPT ![r] =
                    [k \in 1..NumChunks |->
                        IF k <= ApiLimit THEN "call1" ELSE "wait"]]
    /\ LET n == IF NumChunks <= ApiLimit THEN NumChunks ELSE ApiLimit
       IN  /\ calls' = [calls EXCEPT ![passIdx][r] = @ + n]
           /\ nCalls' = nCalls + n
    /\ UNCHANGED <<auditSchema, hasColumn, prompts, minted, callers, pure, cfg, audit, derived, srcCol, projLog, phase, passIdx,
                   path, attempt, res, exists, dbHeld, faults, ended,
                   results, snapCol>>

\* a chunk coroutine waiting on the inner api_semaphore enters it
ChunkStart(r, k) ==
    /\ phase = "running"
    /\ pc[r] = "tcall"
    /\ chunk[r][k] = "wait"
    /\ ChunkPermitFree(r)
    /\ chunk' = [chunk EXCEPT ![r][k] = "call1"]
    /\ calls' = [calls EXCEPT ![passIdx][r] = @ + 1]
    /\ nCalls' = nCalls + 1
    /\ UNCHANGED <<auditSchema, hasColumn, prompts, minted, callers, pure, cfg, audit, derived, srcCol, projLog, phase, passIdx,
                   pc, path, attempt, res, exists, apiHeld, dbHeld, faults,
                   ended, results, snapCol>>

\* a chunk request returns: a failed first request sleeps and is retried
\* once, a failed second request yields blank lines.  When the last chunk
\* is done the row result (always with 'updated') is returned.
ChunkReturns(r, k, o) ==
    /\ phase = "running"
    /\ pc[r] = "tcall"
    /\ chunk[r][k] \in {"call1", "call2"}
    /\ o # "ok" => Troubled(r) /\ k <= MaxFailingChunks
    /\ LET c == [chunk[r] EXCEPT ![k] =
                    IF chunk[r][k] = "call1" /\ o = "err" THEN "sleep"
                    ELSE "done"]
       IN  /\ chunk' = [chunk EXCEPT ![r] = c]
           /\ IF AllChunksDone(c)
              THEN /\ pc' = [pc EXCEPT ![r] = "wdb"]
                   /\ res' = [res EXCEPT ![r] = "ok"]
                   /\ apiHeld' = apiHeld - 1
              ELSE UNCHANGED <<pc, res, apiHeld>>
    /\ UNCHANGED <<auditSchema, hasColumn, prompts, minted, callers, pure, cfg, audit, derived, srcCol, projLog, phase, passIdx,
                   path, attempt, exists, dbHeld, faults, calls, nCalls,
                   ended, results, snapCol>>

\* asyncio.sleep(2) is over: the chunk request is issued again
ChunkRetry(r, k) ==
    /\ phase = "running"
    /\ pc[r] = "tcall"
    /\ chunk[r][k] = "sleep"
    /\ chunk' = [chunk EXCEPT ![r][k] = "call2"]
    /\ calls' = [calls EXCEPT ![passIdx][r] = @ + 1]
    /\ nCalls' = nCalls + 1
    /\ UNCHANGED <<auditSchema, hasColumn, prompts, minted, callers, pure, cfg, audit, derived, srcCol, projLog, phase, passIdx,
                   pc, path, attempt, res, exists, apiHeld, dbHeld, faults,
                   ended, results, snapCol>>

(* ---- the durable write ------------------------------------------------ *)

\* enter `async with db_semaphore` and start store_raw_enrichment_response
\* in a thread (llm_operations.py:401-423, 484-498, 598-612;
\* enrichment.py:239-252)
AcquireDb(r) ==
    /\ phase = "running"
    /\ pc[r] = "wdb"
    /\ DbPermitFree
    /\ dbHeld' = dbHeld + 1
    /\ pc' = [pc EXCEPT ![r] = "audit"]
    /\ UNCHANGED <<auditSchema, hasColumn, prompts, minted, callers, pure, cfg, audit, derived, srcCol, projLog, phase, passIdx,
                   path, attempt, res, exists, chunk, apiHeld, faults,
                   calls, nCalls, ended, results, snapCol>>

\* the result carries data: result.get('updated') is truthy
HasUpdated(r) ==
    res[r] = "ok"

\* a result built from the response of the first attempt of the row
ResultContent_First(r) ==
    IF HasUpdated(r) THEN 1 ELSE 0

\* The content of the row result ('updated' and 'raw_json'): the response
\* of the provider call that returned last (llm_operations.py:721-749,
\* 863-900; enrichment.py:156-206), named by its number among the calls of
\* the row in the pass; 0 for an error result.
ResultContent(r) ==
    IF HasUpdated(r) THEN calls[passIdx][r] ELSE 0

\* What follows the audit append inside `async with db_semaphore`.
\*  "s" llm_operations.py:425-461: the derived table when there is data
\*      and the mode is separate_table; otherwise the direct-column branch,
\*      which for a single output column reads result['updated'].get(...)
\*      and so raises AttributeError when 'updated' is None;
\*  "l" llm_operations.py:500-514, 554-578, 614-638;
\*  "p" enrichment.py:254-290.
AfterAudit(r) ==
    CASE path[r] = "s" ->
            IF HasUpdated(r) /\ cfg.storage = "separate_table"
            THEN Goto(r, "uotc")
            ELSE IF cfg.nFields = 1
                 THEN IF HasUpdated(r) THEN Goto(r, "upd") ELSE Raise(r)
                 ELSE Finish(r)
      [] path[r] = "l" ->
            IF ~HasUpdated(r) THEN Finish(r)
            ELSE IF cfg.storage = "separate_table" /\ ~cfg.byLine
                 THEN Goto(r, "uotc")
                 ELSE Goto(r, "upd")
      [] OTHER ->
            IF ~HasUpdated(r) THEN Finish(r)
            ELSE IF cfg.storage = "separate_table"
                 THEN Goto(r, "uotc")
                 ELSE Goto(r, "upd")

\* a database statement may fail on a lock that outlasts the busy timeout
MayFault ==
    faults < MaxDbFaults

\* store_raw_enrichment_response (db_operations.py:594-615) runs: the
\* INSERT commits, or it fails and the sqlite3.Error is re-raised.  The
\* INSERT names the column full_prompt, which the table built by the
\* migration does not have.
AuditAppend(r) ==
    /\ phase \in {"running", "aborted", "interrupted"}
    /\ pc[r] = "audit"
    /\ \/ /\ auditSchema # "migrated"
          /\ audit' = audit \cup {AuditRec(MyEid(r), Sha1Of(r), ThisName,
                                             CurModel, HasUpdated(r),
                                             ResultContent(r))}
          /\ IF Stopped THEN Finish(r) ELSE AfterAudit(r)
          /\ UNCHANGED faults
       \/ /\ auditSchema # "migrated"
          /\ MayFault
          /\ Troubled(r)
          /\ faults' = faults + 1
          /\ Raise(r)
          /\ UNCHANGED audit
       \/ /\ auditSchema = "migrated"
          /\ Raise(r)
          /\ UNCHANGED <<audit, faults>>
    /\ UNCHANGED <<auditSchema, hasColumn, prompts, minted, callers, pure, cfg, derived, srcCol, projLog, passIdx, attempt, exists,
                   calls, nCalls, ended, results, snapCol>>

\* update_output_table, first half (db_operations.py:671-702): the SELECT
\* that sets `exists`.  The SELECT and the later INSERT/UPDATE are separate
\* statements of one connection, not one transaction.
UotCheck(r) ==
    /\ phase \in {"running", "aborted", "interrupted"}
    /\ pc[r] = "uotc"
    /\ exists' = [exists EXCEPT ![r] = HasDerivedRow(Sha1Of(r), CurModel)]
    /\ pc' = [pc EXCEPT ![r] = "uotw"]
    /\ UNCHANGED <<auditSchema, hasColumn, prompts, minted, callers, pure, cfg, audit, derived, srcCol, projLog, phase, passIdx,
                   path, attempt, res, chunk, apiHeld, dbHeld, faults,
                   calls, nCalls, ended, results, snapCol>>

\* the INSERT of update_output_table violates UNIQUE(sha1, model_used)
UniqueViolated(r) ==
    cfg.hasUnique /\ HasDerivedRow(Sha1Of(r), CurModel)

\* content: the projected value, named like raw in AuditRec
ProjRec(r, kind) ==
    [eid |-> MyEid(r), sha1 |-> Sha1Of(r), kind |-> kind,
     content |-> ResultContent(r)]

\* update_output_table, second half (db_operations.py:739-803): UPDATE the
\* rows of the pair when `exists`, else INSERT a row
UotWrite(r) ==
    /\ phase \in {"running", "aborted", "interrupted"}
    /\ pc[r] = "uotw"
    /\ IF exists[r]
       THEN /\ derived' = {IF d.sha1 = Sha1Of(r) /\ d.model = CurModel
                            THEN [d EXCEPT !.eid = MyEid(r)] ELSE d :
                            d \in derived}
            /\ projLog' = projLog \cup {ProjRec(r, "derived")}
            /\ Finish(r)
       ELSE IF UniqueViolated(r)
            THEN /\ Raise(r)
                 /\ UNCHANGED <<derived, projLog>>
            ELSE /\ derived' = derived \cup
                        {DerivedRow(Cardinality(derived) + 1, Sha1Of(r),
                                    CurModel, MyEid(r))}
                 /\ projLog' = projLog \cup {ProjRec(r, "derived")}
                 /\ Finish(r)
    /\ UNCHANGED <<auditSchema, hasColumn, prompts, minted, callers, pure, cfg, audit, srcCol, passIdx, attempt, exists, faults,
                   calls, nCalls, ended, results, snapCol>>

\* update_database (db_operations.py:325-370): UPDATE the source row.  The
\* translation branch writes zh_json, en_json and english_translation, not
\* the output column.
UpdateDatabase(r) ==
    /\ phase \in {"running", "aborted", "interrupted"}
    /\ pc[r] = "upd"
    /\ srcCol' = IF InTranslation(r) THEN srcCol
                 ELSE [srcCol EXCEPT ![Sha1Of(r)] = MyEid(r)]
    /\ projLog' = projLog \cup {ProjRec(r, "direct")}
    /\ Finish(r)
    /\ UNCHANGED <<auditSchema, hasColumn, prompts, minted, callers, pure, cfg, audit, derived, passIdx, attempt, exists, faults,
                   calls, nCalls, ended, results, snapCol>>

Outcomes ==
    {"ok", "lang", "err"}

Next ==
    \/ StartRun
    \/ StartPass
    \/ ProcessorStart
    \/ EndPass
    \/ Interrupt
    \/ \E r \in RowIds : AcquireApi(r)
    \/ \E r \in RowIds, o \in Outcomes : ProviderReturns(r, o)
    \/ \E r \in RowIds : TranslationStart(r)
    \/ \E r \in RowIds, k \in 1..NumChunks : ChunkStart(r, k)
    \/ \E r \in RowIds, k \in 1..NumChunks, o \in {"ok", "err"} :
            ChunkReturns(r, k, o)
    \/ \E r \in RowIds, k \in 1..NumChunks : ChunkRetry(r, k)
    \/ \E r \in RowIds : AcquireDb(r)
    \/ \E r \in RowIds : AuditAppend(r)
    \/ \E r \in RowIds : UotCheck(r)
    \/ \E r \in RowIds : UotWrite(r)
    \/ \E r \in RowIds : UpdateDatabase(r)

Spec ==
    Init /\ [][Next]_vars

\* The run without SIGINT: every step the event loop can take is
\* eventually taken (asyncio runs every ready task, every awaited provider
\* call and database call returns).
LiveNext ==
    \/ StartRun
    \/ StartPass
    \/ ProcessorStart
    \/ EndPass
    \/ \E r \in RowIds : AcquireApi(r)
    \/ \E r \in RowIds, o \in Outcomes : ProviderReturns(r, o)
    \/ \E r \in RowIds : TranslationStart(r)
    \/ \E r \in RowIds, k \in 1..NumChunks : ChunkStart(r, k)
    \/ \E r \in RowIds, k \in 1..NumChunks, o \in {"ok", "err"} :
            ChunkReturns(r, k, o)
    \/ \E r \in RowIds, k \in 1..NumChunks : ChunkRetry(r, k)
    \/ \E r \in RowIds : AcquireDb(r)
    \/ \E r \in RowIds : AuditAppend(r)
    \/ \E r \in RowIds : UotCheck(r)
    \/ \E r \in RowIds : UotWrite(r)
    \/ \E r \in RowIds : UpdateDatabase(r)

LiveSpec ==
    Init /\ [][LiveNext]_vars /\ WF_vars(LiveNext)

\* Calls of get_or_create_prompt_id by two doctrail processes on one
\* database, each with one of the two inputs and any model.
PromptNext ==
    \/ \E c \in Clients, i \in InputIds, m \in MODEL_PRICING :
            Lookup(c, i, m)
    \/ \E c \in Clients : InsertPrompt(c)

PromptSpec ==
    PromptInit /\ [][PromptNext]_vars

\* One row of any job is prepared, sent and recorded.
TruncInit ==
    /\ StoreIdle
    /\ job \in Jobs
    /\ task = IdleTask
    /\ field = IdleField
    /\ elist = IdleList
    /\ planner = IdlePlanner
    /\ MiscIdle

TruncNext ==
    \/ BuildMessage
    \/ IssueCall
    \/ \E o \in {"ok", "refused"} : CallReturns(o)
    \/ StoreAudit

TruncSpec ==
    TruncInit /\ [][TruncNext]_vars

\* One field with a declared language is filled from the provider's
\* replies.
LangInit ==
    /\ StoreIdle
    /\ job = IdleJob
    /\ task = IdleTask
    /\ field \in {[IdleField EXCEPT !.lang = l] : l \in {"zh", "en"}}
    /\ elist = IdleList
    /\ planner = IdlePlanner
    /\ MiscIdle

LangNext ==
    \/ \E t \in FieldTexts : FieldReply(t)
    \/ FieldValidate
    \/ FieldStore

LangSpec ==
    LangInit /\ [][LangNext]_vars

\* One enum_list field is filled from a reply of the provider.
ListInit ==
    /\ StoreIdle
    /\ job = IdleJob
    /\ task = IdleTask
    /\ field = IdleField
    /\ elist \in ListFields
    /\ planner = IdlePlanner
    /\ MiscIdle

ListNext ==
    \/ \E xs \in ListReplies : ListReply(xs)
    \/ ListValidate
    \/ ListStore

ListSpec ==
    ListInit /\ [][ListNext]_vars

\* One selection is planned, planned again and executed, with and
\* without --overwrite.
PlanInit ==
    /\ StoreIdle
    /\ job = IdleJob
    /\ task = IdleTask
    /\ field = IdleField
    /\ elist = IdleList
    /\ planner \in {[IdlePlanner EXCEPT !.sql = s, !.limit = n, !.table = tb,
                                         !.rowid = k, !.sha1 = h] :
                        s \in Selections, n \in 0..MaxLimit, tb \in Tables,
                        k \in 0..NumPlanRows, h \in {"None"} \cup TargetSha1s}
    /\ MiscIdle

PlanNext ==
    \/ \E o \in BOOLEAN : BuildQuery(o)
    \/ \E o \in BOOLEAN : RebuildQuery(o)
    \/ \E o \in BOOLEAN : ExecuteQuery(o)

PlanSpec ==
    PlanInit /\ [][PlanNext]_vars

\* One use of get_db_connection, with every outcome of the connection
\* attempts and of the caller's body.
ConnInit ==
    /\ StoreIdle
    /\ PureIdle

ConnNext ==
    \/ \E o \in {"ok"} \cup ErrorKinds : Connect(o)
    \/ SleepReturns
    \/ \E o \in {"ok"} \cup ErrorKinds : BodyRuns(o)

ConnSpec ==
    ConnInit /\ [][ConnNext]_vars

\* The batches of one run return with any numbers of successful rows.
WalInit ==
    /\ StoreIdle
    /\ job = IdleJob
    /\ task = IdleTask
    /\ field = IdleField
    /\ elist = IdleList
    /\ planner = IdlePlanner
    /\ conn = IdleConn
    /\ wal \in {[IdleWal EXCEPT !.engine = e] : e \in {"batch", "processor"}}
    /\ cost = IdleCost
    /\ proj = IdleProj

WalNext ==
    \/ \E n \in 0..MaxBatchRows : BatchGathered(n)
    \/ BatchEnds

WalSpec ==
    WalInit /\ [][WalNext]_vars

\* One enrichment run over its models, with every setting of the cost
\* flags, every number of rows left for a model and every price.
CostInit ==
    /\ StoreIdle
    /\ job = IdleJob
    /\ task = IdleTask
    /\ field = IdleField
    /\ elist = IdleList
    /\ planner = IdlePlanner
    /\ conn = IdleConn
    /\ wal = IdleWal
    /\ cost \in {[IdleCost EXCEPT !.skip = s, !.threshold = t, !.rows = n,
                                  !.price = c] :
                    s \in BOOLEAN, t \in 0..MaxThreshold,
                    n \in [CostModels -> 0..MaxCostRows],
                    c \in [CostModels -> 0..MaxPrice]}
    /\ proj = IdleProj

CostNext ==
    \/ NextModel
    \/ CostCheck
    \/ \E answer \in {"y", "n", "abort"} : Confirm(answer)
    \/ \E ok \in BOOLEAN : CostProcessRow(ok)
    \/ PassEnds

CostSpec ==
    CostInit /\ [][CostNext]_vars

\* One row result of every kind on each path and in each storage mode.  A
\* schema of several fields stores to a derived table, the legacy path has
\* one output column, and the processor stores results of calls that
\* returned.
ProjInit ==
    /\ StoreIdle
    /\ job = IdleJob
    /\ task = IdleTask
    /\ field = IdleField
    /\ elist = IdleList
    /\ planner = IdlePlanner
    /\ conn = IdleConn
    /\ wal = IdleWal
    /\ cost = IdleCost
    /\ proj \in {q \in {[IdleProj EXCEPT !.pc = "result", !.path = pth,
                                        !.storage = st, !.n = n,
                                        !.result = r,
                                        !.col = c, !.col0 = c,
                                        !.derived = d, !.derived0 = d,
                                        !.calls = 1] :
                          pth \in {"s", "l", "p"},
                          st \in {"direct_column", "separate_table"},
                          n \in ProjFields,
                          r \in UNION {ResultsOf(k) : k \in ProjFields}
                                    \cup {ErrorResult},
                          c \in {"NULL", "old"},
                          d \in {NoDerivedRow, PriorDerivedRow}} :
                    /\ (q.storage = "direct_column" \/ q.path = "l") => q.n = 1
                    /\ q.result.ok => Len(q.result.fields) = q.n
                    /\ q.path = "p" => q.result.ok}

ProjNext ==
    \/ ProjStoreAudit
    \/ ProjectedWrite
    \/ \E r \in ResultsOf(1) \cup {ErrorResult} : LegacyFallback(r)

ProjSpec ==
    ProjInit /\ [][ProjNext]_vars

(* ---- vocabulary of the properties ------------------------------------- *)

\* the model pass p has made its selection of rows
PassExamined(p) ==
    \/ p < passIdx
    \/ p = passIdx /\ phase \in {"running", "done", "aborted", "interrupted"}

\* process_batch created a task for row r in pass p
TaskCreated(p, r) ==
    \/ calls[p][r] > 0
    \/ /\ p = passIdx
       /\ phase \in {"running", "aborted", "interrupted"}
       /\ pc[r] # "none"

\* audit rows of the triple (sha1 s, this enrichment, model m) in a store
TripleRows(store, s, m) ==
    {a \in store : a.sha1 = s /\ a.name = ThisName /\ a.model = m}

\* an earlier run left a success audit row for the triple
HadSuccessAudit(s, m) ==
    \E a \in TripleRows(PriorAudit(cfg), s, m) : a.ok

\* when pass p began the audit log held a row for the triple of row r
HadAuditRow(p, r) ==
    \E a \in TripleRows(audit, Sha1Of(r), cfg.models[p]) : a.eid[1] < p

\* when pass p began the output location held content for row r
HadContent(p, r) ==
    IF cfg.storage = "separate_table"
    THEN \E d \in derived : /\ d.sha1 = Sha1Of(r)
                            /\ d.model = cfg.models[p]
                            /\ d.eid[1] < p
    ELSE snapCol[Sha1Of(r)] # NoVal

\* audit rows appended by the task of row r in pass p
RowAudit(p, r) ==
    {a \in audit : a.eid[1] = p /\ a.eid[2] = r}

\* projected writes performed by the task of row r in pass p
RowWrites(p, r) ==
    {w \in projLog : w.eid[1] = p /\ w.eid[2] = r}

\* audit rows appended during this run
RunAudit ==
    {a \in audit : a.eid # PreEid}

(* ---- C1 --------------------------------------------------------------- *)

\* C1: in the batch engine with overwrite=false, a row whose triple
\* (sha1, enrichment, model) already has a success audit row from an earlier
\* run gets no provider call and no projected write in the pass of that
\* model, and the audit rows of the triple stay exactly those of before.
C1_Idempotent ==
    (cfg.engine = "batch" /\ ~cfg.overwrite) =>
        \A p \in 1..Len(cfg.models), r \in results :
            HadSuccessAudit(Sha1Of(r), cfg.models[p]) =>
                /\ calls[p][r] = 0
                /\ RowWrites(p, r) = {}
                /\ TripleRows(audit, Sha1Of(r), cfg.models[p])
                     = TripleRows(PriorAudit(cfg), Sha1Of(r), cfg.models[p])

\* a finished run that selected a row with a success audit row and no
\* projected content, so that only the audit check can skip it
C1_Witness ==
    /\ phase = "done"
    /\ cfg.engine = "batch"
    /\ ~cfg.overwrite
    /\ \E r \in results :
          /\ HadSuccessAudit(Sha1Of(r), cfg.models[1])
          /\ ~HadContent(1, r)
          /\ PassExamined(1)

(* ---- C2 --------------------------------------------------------------- *)

\* C2: over a finished run the number of audit rows appended equals the
\* number of provider calls attempted.
C2_AuditRowPerCall ==
    phase = "done" => Cardinality(RunAudit) = nCalls

(* ---- C3 --------------------------------------------------------------- *)

\* C3: every projected write performed (direct-column update or
\* derived-table upsert) finds an audit row with its enrichment_id already
\* in the audit log.
C3_AuditPrecedesWrite ==
    \A w \in projLog : \E a \in audit : a.eid = w.eid

\* a finished run in which every row of the stream was projected
C3_Witness ==
    /\ phase = "done"
    /\ Cardinality(projLog) = NumRows
    /\ \A w \in projLog : \E a \in audit : a.eid = w.eid /\ a.ok

(* ---- C4 --------------------------------------------------------------- *)

\* C4: the derived table holds at most one row per (sha1, model_used).
C4_UniquePair ==
    \A d1 \in derived, d2 \in derived :
        (d1.sha1 = d2.sha1 /\ d1.model = d2.model) => d1 = d2

(* ---- C5 --------------------------------------------------------------- *)

\* C5: the provider calls in flight never exceed the API limit, counted
\* over all rows and processing paths.
C5_ApiLimit ==
    InFlight <= ApiLimit

(* ---- C6 --------------------------------------------------------------- *)

\* C6: the tasks whose database call (audit append or projected write) is
\* running never exceed DEFAULT_DB_SEMAPHORE_LIMIT.
C6_DbLimit ==
    Writers <= DEFAULT_DB_SEMAPHORE_LIMIT

\* the limit is reached while another task waits for a permit
C6_Witness ==
    /\ Writers = DEFAULT_DB_SEMAPHORE_LIMIT
    /\ \E r \in RowIds : pc[r] = "wdb"

(* ---- C7 --------------------------------------------------------------- *)

\* C7 as stated: with overwrite=false a selected row is skipped if and only
\* if the audit log holds a row for its triple.
C7_AuditOnly ==
    (cfg.engine = "batch" /\ ~cfg.overwrite) =>
        \A p \in 1..Len(cfg.models), r \in results :
            PassExamined(p) => (~TaskCreated(p, r) <=> HadAuditRow(p, r))

\* C7: with overwrite=false a selected row is skipped if and only if the
\* audit log holds a row for its triple (success or error) or the output
\* location already holds content for it (a derived row of the pair
\* (sha1, model), or a non-empty output column).
C7_SkipIff ==
    (cfg.engine = "batch" /\ ~cfg.overwrite) =>
        \A p \in 1..Len(cfg.models), r \in results :
            PassExamined(p) =>
                (~TaskCreated(p, r) <=> (HadAuditRow(p, r) \/ HadContent(p, r)))

\* a finished two-model run: the pass of the first model skipped a row on
\* an error audit row alone, the pass of the second model processed it
C7_Witness ==
    /\ phase = "done"
    /\ ~cfg.overwrite
    /\ Len(cfg.models) = 2
    /\ \E r \in results :
          /\ HadAuditRow(1, r)
          /\ ~HadContent(1, r)
          /\ \A a \in TripleRows(audit, Sha1Of(r), cfg.models[1]) : ~a.ok
          /\ ~TaskCreated(1, r)
          /\ TaskCreated(2, r)

(* ---- C8 --------------------------------------------------------------- *)

\* C8: no failure of a row's task aborts the run: unless the user
\* interrupts the run, no task ends with an exception that leaves the
\* engine and no task is cancelled.
C8_NeverAborts ==
    phase # "interrupted" =>
        /\ phase # "aborted"
        /\ \A r \in RowIds : pc[r] \notin {"failed", "cancelled"}

(* ---- C9 --------------------------------------------------------------- *)

\* C9: a row gets at most max_retries + 1 provider calls in a pass, and
\* once its call has failed for another reason than language validation no
\* provider call of that row is issued any more in the pass.
C9_OnlyLanguageRetried ==
    phase = "running" =>
        \A r \in RowIds :
            /\ calls[passIdx][r] <= max_retries + 1
            /\ ended[r] = "err" => pc[r] \notin {"call", "tcall"}

(* ---- C10 -------------------------------------------------------------- *)

\* C10: a row whose attempts all failed language validation ends the pass
\* with exactly one audit row, an error row, and without projected write.
C10_ExhaustedRetries ==
    \A r \in RowIds :
        (phase = "running" /\ ended[r] = "lang" /\ pc[r] = "done") =>
            /\ Cardinality(RowAudit(passIdx, r)) = 1
            /\ \A a \in RowAudit(passIdx, r) : ~a.ok
            /\ RowWrites(passIdx, r) = {}

(* ---- C11 -------------------------------------------------------------- *)

C12_FailureNotProjected ==
    \A r \in RowIds :
        (phase = "running" /\ ended[r] = "err" /\ pc[r] = "done") =>
            /\ \E a \in RowAudit(passIdx, r) : ~a.ok /\ a.raw = 0
            /\ RowWrites(passIdx, r) = {}

(* ---- C13 -------------------------------------------------------------- *)

\* the task of row r has ended: it returned, raised or was cancelled
TaskEnded(r) ==
    pc[r] \in {"done", "failed", "cancelled"}

\* C13: once the task of a row has ended, every success audit row it
\* appended has its projected write: no audit row of a call that yielded
\* data persists without the projected write of the same enrichment_id.
C13_AuditAndWriteAtomic ==
    \A r \in RowIds :
        TaskEnded(r) =>
            \A a \in RowAudit(passIdx, r) :
                a.ok => \E w \in projLog : w.eid = a.eid

(* ---- C14 -------------------------------------------------------------- *)

\* positions in which a projected write of the task is in progress
ProjectingPcs ==
    {"uotc", "uotw", "upd"}

\* C14: no two tasks have a projected write for the same (sha1, model)
\* pair in progress at the same time.
C14_PairWritesSerialized ==
    \A r1 \in RowIds, r2 \in RowIds :
        (/\ r1 # r2
         /\ pc[r1] \in ProjectingPcs
         /\ pc[r2] \in ProjectingPcs) => Sha1Of(r1) # Sha1Of(r2)

(* ---- C15 -------------------------------------------------------------- *)

\* C15: with overwrite=true, on an audit table without uniqueness on the
\* triple, every selected row gets a task in every pass, every row whose
\* task has returned has a new audit row of its triple appended in that
\* pass, and the audit rows of earlier runs are all still present and
\* unchanged.
C15_OverwriteAppends ==
    (cfg.engine = "batch" /\ cfg.overwrite /\ cfg.legacy = "no") =>
        /\ PriorAudit(cfg) \subseteq audit
        /\ \A p \in 1..Len(cfg.models), r \in results :
              PassExamined(p) =>
                  /\ TaskCreated(p, r)
                  /\ (p < passIdx \/ pc[r] = "done") =>
                        \E a \in TripleRows(audit, Sha1Of(r), cfg.models[p]) :
                            a.eid[1] = p /\ a.eid[2] = r

\* a finished overwrite run over a row that had an audit row and content:
\* the triple now has the earlier audit row and a new one
C15_Witness ==
    /\ phase = "done"
    /\ cfg.overwrite
    /\ cfg.hist = "ok"
    /\ \E r \in results :
          /\ HadAuditRow(1, r)
          /\ Cardinality(TripleRows(audit, Sha1Of(r), cfg.models[1])) >= 2

(* ---- C16 -------------------------------------------------------------- *)

\* a multi-model task over a derived table and a store without history
MultiModelTask ==
    /\ cfg.engine = "batch"
    /\ Len(cfg.models) > 1
    /\ cfg.storage = "separate_table"
    /\ cfg.hist = "fresh"
    /\ ~cfg.dup

\* every provider call of the run succeeded at once and no database
\* statement failed
NoFailure ==
    /\ faults = 0
    /\ \A a \in RunAudit : a.ok
    /\ \A p \in Passes, r \in RowIds : calls[p][r] <= 1

\* N x M audit rows and N x M derived rows, one per (sha1, model_used)
OneRowPerRowAndModel ==
    LET nm == Cardinality(results) * Len(cfg.models)
    IN  /\ Cardinality(RunAudit) = nm
        /\ Cardinality(derived) = nm
        /\ \A r \in results, p \in 1..Len(cfg.models) :
              Cardinality({d \in derived : /\ d.sha1 = Sha1Of(r)
                                           /\ d.model = cfg.models[p]}) = 1

C17_IssuedCallAudited ==
    phase = "interrupted" =>
        \A r \in RowIds :
            (calls[passIdx][r] > 0 /\ pc[r] \in {"done", "cancelled"}) =>
                RowAudit(passIdx, r) # {}

(* ---- C18 -------------------------------------------------------------- *)

\* the task of row r waits for a permit of the API or the DB semaphore
Suspended(r) ==
    pc[r] \in {"start", "wdb"}

\* C18: when the run is cancelled, every task waiting for a semaphore ends
\* at once, and a task that ended by cancellation issues no provider call,
\* appends no audit row and performs no projected write afterwards.
C18_SuspendedTaskLeavesNoTrace ==
    [][\A r \in RowIds :
          /\ (phase = "running" /\ Stopped' /\ Suspended(r)) =>
                pc'[r] = "cancelled"
          /\ pc[r] = "cancelled" =>
                /\ pc'[r] = "cancelled"
                /\ calls'[passIdx][r] = calls[passIdx][r]
                /\ RowAudit(passIdx, r)' = RowAudit(passIdx, r)
                /\ RowWrites(passIdx, r)' = RowWrites(passIdx, r)]_vars

\* an interrupted run: one task was cancelled while waiting for the API
\* semaphore, another after its call without having stored anything
C18_Witness ==
    /\ phase = "interrupted"
    /\ \E r \in RowIds :
          /\ pc[r] = "cancelled"
          /\ calls[passIdx][r] = 0
    /\ \E r \in RowIds :
          /\ pc[r] = "cancelled"
          /\ calls[passIdx][r] > 0
          /\ RowAudit(passIdx, r) = {}
          /\ RowWrites(passIdx, r) = {}

(* ---- the prompt registry: properties ----------------------------------- *)

\* the prompt_ids the registry returned for input i
IdsOf(i) ==
    {x.prompt_id : x \in {y \in returned : y.i = i}}

\* the two inputs differ in a byte of the prompt or of the system prompt
InputsDiffer ==
    \/ inputs[1].p # inputs[2].p
    \/ OrEmpty(inputs[1].s) # OrEmpty(inputs[2].s)

\* C19: prompt_id is a function of (enrichment name, prompt, system
\* prompt): every call with the same input returns the same prompt_id,
\* whatever the model and the process, and two inputs that differ in a
\* byte of the prompt or of the system prompt never get the same prompt_id.
C19_PromptIdentity ==
    /\ \A i \in InputIds : Cardinality(IdsOf(i)) <= 1
    /\ inputs[1] = inputs[2] => Cardinality(IdsOf(1) \cup IdsOf(2)) <= 1
    /\ InputsDiffer => IdsOf(1) \cap IdsOf(2) = {}

\* C20: the prompts table never holds two records for one
\* (enrichment_name, prompt_hash); every prompt_id returned is the id of
\* the one record of the input's key, so all calls for a key return the id
\* of the first insertion, under any model; and a record is minted only
\* by an insertion.
C20_RegistryWrittenOnce ==
    /\ \A a, b \in prompts :
          (a.enrichment_name = b.enrichment_name
              /\ a.prompt_hash = b.prompt_hash) => a = b
    /\ \A x \in returned :
          \E a \in prompts :
             /\ a.prompt_id = x.prompt_id
             /\ SelectPrompt(prompts, inputs[x.i]) = {a}
    /\ Cardinality(prompts) <= minted

\* a key was inserted once, a later call under another model returned the
\* same prompt_id, and a process that lost the race for the key has had
\* its INSERT rejected
C20_Witness ==
    /\ \E x, y \in returned : x.i = y.i /\ x.m # y.m
    /\ minted > Cardinality(prompts)
    /\ prompts # {}
    /\ \A c \in Clients : client[c].pc = "idle"

(* ---- C30 -------------------------------------------------------------- *)

\* the task of row r is inside `async with semaphore` of its row processor
\* (llm_operations.py:658, 794; enrichment.py:132): the batch processors
\* leave the block when the call has returned, _process_single_row leaves
\* it after _store_results
HoldsApiPermit(r) ==
    \/ pc[r] = "call"
    \/ path[r] = "p" /\ pc[r] \in {"wdb"} \cup ThreadPcs

\* C30: while the run is going on, no task waits for or holds a permit of
\* the database semaphore while it holds a permit of the API semaphore.
C30_ApiReleasedBeforeDb ==
    phase = "running" =>
        \A r \in RowIds :
            pc[r] \in {"wdb"} \cup ThreadPcs => ~HoldsApiPermit(r)

(* ---- C28 -------------------------------------------------------------- *)

\* the store is as the earlier runs left it
StoreUntouched ==
    /\ audit = PriorAudit(cfg)
    /\ derived = PriorDerived(cfg)
    /\ srcCol = PriorSrcCol(cfg)
    /\ hasColumn = PriorColumn(cfg)

\* C28: a task with several models whose strategy is direct_column never
\* runs: once _async_cli has handled it, it is rejected, no provider call
\* was issued and nothing was written to the store.
C28_MultiModelRejectedUntouched ==
    (Len(cfg.models) > 1 /\ cfg.storage = "direct_column"
        /\ phase # "init") =>
        /\ phase = "rejected"
        /\ nCalls = 0
        /\ projLog = {}
        /\ StoreUntouched

(* ---- C29 -------------------------------------------------------------- *)

\* C29: the audit log is append-only: every step of a run, the table
\* creation and migration at the start of a model pass included, leaves
\* every audit row in the log as it was written, prompt_id and full_prompt
\* included.
C29_AuditAppendOnly ==
    [][audit \subseteq audit']_vars

\* C21: with truncate=true, no provider call is issued whose estimated
\* token count (prompt plus input) exceeds context_limit - safety_margin.
C21_NoOversizeCall ==
    (job.truncate /\ task.calls > 0) =>
        EstimatedTokens(task.msg) <= max_allowed_tokens

\* C22: the marker [TRUNCATED] appears in the full_prompt submitted and
\* recorded for a call if and only if truncation occurred for that call.
C22_MarkerIffTruncated ==
    /\ task.calls > 0 => (task.msg.marker <=> task.msg.cut)
    /\ \A i \in 1..Len(task.audit) :
            task.audit[i].full_prompt.marker <=> task.audit[i].full_prompt.cut

\* the row's whole input does not fit the model's context
Oversize(j) ==
    estimate_tokens(TemplatedLen(j)) + estimate_tokens(InputLen(j))
        > ContextLimit

\* C23: when truncation is not enabled, a row whose input exceeds the
\* model context results in zero provider calls and exactly one audit row
\* carrying a TruncationError.
C23_OversizeWithoutTruncate ==
    (~job.truncate /\ Oversize(job)) =>
        /\ task.calls = 0
        /\ task.pc = "done" =>
              /\ Len(task.audit) = 1
              /\ task.audit[1].error = "TruncationError"

\* C24: every value stored for a field declared lang: zh contains at least
\* one CJK ideograph, and every value stored for a field declared lang: en
\* contains none.
C24_StoredLanguage ==
    field.pc = "done" =>
        /\ field.lang = "zh" =>
              \E i \in 1..Len(field.stored) : IsIdeograph(field.stored[i])
        /\ field.lang = "en" =>
              \A i \in 1..Len(field.stored) : ~IsIdeograph(field.stored[i])

\* xs without the items outside the allowed set
AllowedOnly(xs) ==
    SelectSeq(xs, LAMBDA x : x \in Choices)

\* C25: for every provider output xs for an enum_list field, the stored
\* value equals dedupe_preserving_order(xs intersected with the allowed
\* set), with min_items/max_items applied to that deduplicated list: a
\* list within the bounds after dedupe is stored, one below min_items
\* after dedupe is rejected.
C25_EnumListStored ==
    elist.pc \in {"done", "rejected"} =>
        LET d == deduplicated_items(AllowedOnly(elist.reply))
        IN  /\ Len(d) < elist.min_items => elist.pc = "rejected"
            /\ (/\ Len(d) >= elist.min_items
                /\ elist.max_items = 0 \/ Len(d) <= elist.max_items) =>
                    elist.pc = "done" /\ elist.stored = d

\* C26: for every selection sql, output column col and database state, the
\* result set of plan(sql, overwrite=false, col) is a subset of the result
\* set of plan(sql, overwrite=true, col).
C26_AppendSubsetOfOverwrite ==
    (planner.results[FALSE].run /\ planner.results[TRUE].run) =>
        planner.results[FALSE].rows \subseteq planner.results[TRUE].rows

\* C27: the query planner is idempotent: for every selection sql and fixed
\* flags (overwrite, column, limit), plan(plan(sql)) = plan(sql).
C27_PlanIdempotent ==
    \A o \in BOOLEAN :
        planner.replans[o] # None => planner.replans[o] = planner.plans[o]

\* an append plan that added the NULL filter, the order and the limit was
\* planned again
C27_Witness ==
    /\ planner.sql = <<"SELECT", "*", "FROM", "t", "WHERE", "x">>
    /\ planner.limit = 1
    /\ planner.plans[FALSE] =
          <<"SELECT", "*", "FROM", "t", "WHERE", "colnull", "AND", "x",
            "ORDERBY", "rowid", "LIMIT", "1">>
    /\ planner.replans[FALSE] = planner.plans[FALSE]
    /\ planner.replans[TRUE] = planner.plans[TRUE]
    /\ planner.plans[TRUE] # planner.sql

\* the task of row r has been created and has not returned
TaskActive(r) ==
    phase = "running" /\ pc[r] \notin {"none", "done", "failed"}

\* the task of row r returned, with a result or by raising
TaskReturned(r) ==
    pc[r] \in {"done", "failed"}

\* C31: every batch terminates without deadlock or permit leak: every
\* non-skipped row's task eventually acquires its permits, completes and
\* releases every permit it acquired, on every path.
C31_EveryTaskCompletes ==
    \A r \in RowIds : TaskActive(r) ~> TaskReturned(r)

\* C32: the connection retry loop re-attempts only the opening of a
\* connection: the caller's body executes at most once per use of
\* get_db_connection, and a transient lock error raised by a statement
\* inside the body is propagated to the caller as that error.
C32_BodyErrorPropagates ==
    /\ conn.bodyRuns <= 1
    /\ conn.thrown \in Transient =>
          conn.pc = "raised" /\ conn.caller = conn.thrown

\* the waits the retry policy names, in seconds
BackoffWaits ==
    <<2, 4, 6>>

\* C33: on transient lock/open errors at most 3 attempts are made, the
\* waits are taken in order from 2s, 4s, 6s, the error of the last failed
\* attempt is raised to the caller, and an error of any other kind is
\* raised at once, without a wait.
C33_RetryPolicy ==
    /\ conn.opens <= MAX_RETRY_ATTEMPTS
    /\ Len(conn.waits) <= Len(BackoffWaits)
    /\ \A i \in 1..Len(conn.waits) : conn.waits[i] = BackoffWaits[i]
    /\ Len(conn.errors) <= MAX_RETRY_ATTEMPTS
    /\ Len(conn.errors) = MAX_RETRY_ATTEMPTS =>
          /\ conn.pc = "raised"
          /\ conn.caller = conn.errors[MAX_RETRY_ATTEMPTS]
    /\ (conn.errors # <<>> /\ conn.errors[Len(conn.errors)] \notin Transient) =>
          /\ conn.pc = "raised"
          /\ conn.caller = conn.errors[Len(conn.errors)]
          /\ Len(conn.waits) = Len(conn.errors) - 1

\* three attempts failed on a lock, after waits of 2s and 4s
C33_Witness ==
    /\ conn.pc = "raised"
    /\ conn.opens = 3
    /\ conn.waits = <<2, 4>>
    /\ conn.errors = <<"locked", "locked", "locked">>
    /\ conn.caller = "locked"

\* C34: each time the cumulative count of successfully processed rows of a
\* run passes another multiple of the interval, a WAL checkpoint is
\* issued, however the rows are split into batches.
C34_CheckpointEveryInterval ==
    ~wal.missed

\* the rows the configured selection returns itself
OriginalRows ==
    Execute(planner.sql, planner.table).rows

\* C35: in direct_column mode with overwrite=false the planned statement
\* selects exactly the rows of the original selection whose output column
\* IS NULL: the predicate is ANDed with the whole WHERE condition, or added
\* as a new WHERE clause before any ORDER BY, and is not added again when
\* already present.  Stated for selections without a LIMIT and runs
\* without --limit, where the rows of the original selection do not depend
\* on the order, planned without --rowid and --sha1.
C35_AppendSelectsNullRows ==
    (/\ planner.results[FALSE].run
     /\ planner.rowid = 0 /\ planner.sha1 = "None"
     /\ planner.limit = 0
     /\ LimitPart(planner.sql) = <<>>) =>
        /\ planner.results[FALSE].ok
        /\ planner.results[FALSE].rows =
              {r \in OriginalRows : planner.table[r].null}

\* the selection with every NULL conjunct replaced by 1=1
WithoutNullFilter(sql) ==
    [i \in 1..Len(sql) |-> IF sql[i] = "colnull" THEN "1=1" ELSE sql[i]]

\* C36: in direct_column mode with overwrite=true every pre-existing
\* '<output_column> IS NULL' conjunct is stripped from the WHERE (replaced
\* with 1=1 where structure demands) while all other conditions are
\* preserved, yielding a well-formed statement that selects rows regardless
\* of the output column's nullness.  Stated for selections whose conditions
\* are all conjuncts, planned without --rowid and --sha1.
C36_OverwriteStripsNullFilter ==
    (/\ planner.results[TRUE].run
     /\ planner.rowid = 0 /\ planner.sha1 = "None"
     /\ ~HasWord(planner.sql, "OR")) =>
        /\ WellFormed(planner.plans[TRUE])
        /\ ~HasWord(planner.plans[TRUE], "colnull")
        /\ planner.results[TRUE].ok
        /\ planner.results[TRUE].rows =
              Execute(add_order_and_limit(WithoutNullFilter(planner.sql),
                                          planner.limit),
                      planner.table).rows

\* C37: row targeting bypasses all query rewriting: when a rowid K (or,
\* without a rowid, a sha1 H) is given, the executed statement is exactly
\* SELECT rowid, * FROM <table> WHERE rowid = K (resp. sha1 = 'H'),
\* independent of the configured query, the overwrite mode and any limit,
\* and it returns the rows with that rowid (resp. that sha1).
C37_TargetBypassesRewriting ==
    \A o \in BOOLEAN :
        /\ (planner.rowid # 0 /\ planner.plans[o] # None) =>
              /\ planner.plans[o] =
                    <<"SELECT", "rowid,", "*", "FROM", "t", "WHERE",
                      RowidCond(planner.rowid)>>
              /\ planner.results[o].run =>
                    /\ planner.results[o].ok
                    /\ planner.results[o].rows = {planner.rowid}
        /\ (/\ planner.rowid = 0
            /\ planner.sha1 # "None"
            /\ planner.plans[o] # None) =>
              /\ planner.plans[o] =
                    <<"SELECT", "rowid,", "*", "FROM", "t", "WHERE",
                      Sha1Cond(planner.sha1)>>
              /\ planner.results[o].run =>
                    /\ planner.results[o].ok
                    /\ planner.results[o].rows =
                          {r \in PlanRowIds : PlanSha1(r) = planner.sha1}

\* --rowid 2 was given with a limit of 1 and a selection that carries its
\* own WHERE, ORDER BY and LIMIT; both plans were built and executed and
\* returned row 2, which the selection itself does not return
C37_Witness ==
    /\ planner.rowid = 2
    /\ planner.limit = 1
    /\ planner.sql = <<"SELECT", "sha1", "FROM", "t", "WHERE", "x",
                       "ORDERBY", "k", "LIMIT", "1">>
    /\ ~planner.table[2].x
    /\ \A o \in BOOLEAN :
          /\ planner.plans[o] =
                <<"SELECT", "rowid,", "*", "FROM", "t", "WHERE", "rowid=2">>
          /\ planner.results[o].run
          /\ planner.results[o].rows = {2}

\* the pass of model m has come past the cost check
CostDecided(m) ==
    cost.outcome[m] \in {"confirming", "declined", "processing", "processed",
                         "aborted"}

\* C38: interactive confirmation is requested if and only if the cost
\* check is not skipped and total_cost > cost_threshold (strictly greater);
\* when confirmation is declined, no provider call and no write is made
\* for that pass, and with the cost check skipped the pass proceeds without
\* confirmation.
C38_ConfirmOnlyAboveThreshold ==
    \A m \in CostModels :
        CostDecided(m) =>
            /\ cost.asked[m] <=>
                  (~cost.skip /\ cost.price[m] * cost.rows[m] > cost.threshold)
            /\ cost.outcome[m] = "declined" =>
                  (cost.calls[m] = 0 /\ cost.writes[m] = 0)
            /\ cost.skip =>
                  (/\ ~cost.asked[m]
                   /\ cost.outcome[m] \in {"processing", "processed"})

\* the first model cost more than the threshold, was asked about and
\* declined; the second cost exactly the threshold and was processed
\* without a question
C38_Witness ==
    /\ ~cost.skip
    /\ cost.threshold = 2
    /\ cost.asked[1]
    /\ cost.outcome[1] = "declined"
    /\ cost.calls[1] = 0
    /\ cost.price[2] * cost.rows[2] = cost.threshold
    /\ ~cost.asked[2]
    /\ cost.outcome[2] = "processed"
    /\ cost.writes[2] > 0

\* the result carries data: a field that is not None, not '', not 'null'
\* and not an empty collection
HasData(result) ==
    result.ok /\ \E f \in DOMAIN result.fields : result.fields[f] \in Data

\* C39: a projected write (direct-column update or derived-table upsert)
\* is performed only if the call yielded non-empty, non-null,
\* non-'null'-string, non-empty-collection data; a result without such
\* data produces an audit row but leaves the source column and the derived
\* table unchanged.
C39_ProjectedWriteOnlyWithData ==
    (proj.pc = "done" /\ ~HasData(proj.result)) =>
        /\ proj.audits >= 1
        /\ proj.col = proj.col0
        /\ proj.derived = proj.derived0
====
